---- MODULE Spec2Model ----
(***************************************************************************)
(* A model of the dblp crate (cruzerngz/CE4071_network_science):           *)
(*   - dataset.rs   ChunkedXmlViewer (from_str, next_chunk, next_element)  *)
(*   - db_items.rs  PersonRecord::to_relations and the bag encoding        *)
(*   - lib.rs       temporal_relation (chunks of two parallel workers)     *)
(*   - lib.rs/db.rs init_from_sqlite, init_from_xml, the queries, the store *)
(*   - db_items.rs  flattening of decoded records; dataset.rs              *)
(*                  strip_references                                       *)
(*   - db.rs        query_author_publications, query_publication,          *)
(*                  capitalize_wildcard                                    *)
(*   - db_items.rs  to_csv_headers, to_csv_row; lib.rs                     *)
(*                  save_temporal_relation                                 *)
(* Text is modelled byte by byte: a Rust &str is a TLA+ string, a byte     *)
(* offset is a 0-based index into it, a regex is an operator computing     *)
(* the leftmost match the regex crate returns.                             *)
(***************************************************************************)
EXTENDS Integers, Sequences, FiniteSets, TLC

VARIABLES
    \* ---- ChunkedXmlViewer (dataset.rs:44-58) and its caller
    input,            \* the text handed to from_str
    kids,             \* the top-level children the text was written from
    offset, len, num_chunks, root_tag_start, root_tag_end, inner,
    driver,           \* "chunks": Iterator::next loop, "elements": next_element loop
    vpc,              \* "ready" | "panicked"
    returned,         \* what each call made so far returned, in call order
    \* ---- PersonRecord::to_relations (db_items.rs:221-296)
    t_persons,        \* the persons table: sequence of rows, in id order
    t_publications,   \* the publications table: sequence of rows, in id order
    self,             \* the PersonRecord to_relations is called on
    range,            \* <<start, end>>
    relation,         \* <<>> before the call, <<result>> after it
    \* ---- temporal_relation (lib.rs:201-276)
    persons,          \* the input list
    results,          \* the output vector
    res,              \* the chunk's slot buffer behind the Mutex
    chunk_at,         \* 0-based index of the chunk's first person
    wpc,              \* per worker of the chunk: its position
    wrel,             \* per worker: the relation to_relations gave it
    failed,           \* input indexes whose to_relations returned Err
    sent,             \* messages in the progress channel
    count,            \* the progress thread's counter
    tpc,              \* position of temporal_relation itself
    target,           \* the file save_temporal_relation writes: <<>> while it does not
                      \* exist, else <<the records written to it>>
    saved,            \* "none" | "Ok" | "Err": what save_temporal_relation returned
    \* ---- the process and its store (lib.rs:27-133, db.rs)
    DB_PATH,          \* the OnceLock<String>: None or Some(path)
    DB_CONN_POOL,     \* the OnceLock<Pool>: None or Some(path the pool opens)
    db,               \* the sqlite file: its tables, rows and indexes
    op,               \* the operation in progress or last made, with its argument
    ppc,              \* the position inside that operation
    outcome,          \* how the last operation ended: kind "ok" | "err" | "panic"
    xml_data,         \* the filtered text init_from_xml hands to the chunker
    committed,        \* the decoded chunks the current ingest has committed
    at_call,          \* DB_PATH and db as they were when the operation was called
    \* ---- calls of the pure functions (dataset.rs:29-35, db_items.rs)
    fn_name,          \* the function called
    fn_arg,           \* its argument
    fn_out            \* None before the call, Some(result) after it

viewerVars == <<input, kids, offset, len, num_chunks, root_tag_start,
                root_tag_end, inner, driver, vpc, returned>>
relVars    == <<t_persons, t_publications, self, range, relation>>
tempVars   == <<persons, results, res, chunk_at, wpc, wrel, failed, sent, count, tpc,
                target, saved>>
procVars   == <<DB_PATH, DB_CONN_POOL, db, op, ppc, outcome, xml_data, committed, at_call>>
pureVars   == <<fn_name, fn_arg, fn_out>>
vars       == <<viewerVars, relVars, tempVars, procVars, pureVars>>

----------------------------------------------------------------------------
\* Strings: 0-based byte offsets as in Rust, over TLC's 1-based strings.

At(s, i)   == SubSeq(s, i + 1, i + 1)          \* the byte at offset i
Drop(s, n) == SubSeq(s, n + 1, Len(s))         \* &s[n..]
Take(s, n) == SubSeq(s, 1, n)                  \* &s[..n]
Slice(s, a, b) == SubSeq(s, a + 1, b)          \* &s[a..b]

Min(S) == CHOOSE x \in S : \A y \in S : x <= y

\* the offset of the first occurrence of pat in s, or -1
Find(s, pat) ==
    LET at == {i \in 0..(Len(s) - Len(pat)) : Slice(s, i, i + Len(pat)) = pat}
    IN  IF at = {} THEN -1 ELSE Min(at)

None == <<>>
Some(x) == <<x>>

\* \w of the regex crate, over the bytes the inputs use
Lowercase == {"a", "b", "c", "d", "e", "f", "g", "h", "i", "j", "k", "l", "m",
              "n", "o", "p", "q", "r", "s", "t", "u", "v", "w", "x", "y", "z"}
Uppercase == {"A", "B", "C", "D", "E", "F", "G", "H", "I", "J", "K", "L", "M",
              "N", "O", "P", "Q", "R", "S", "T", "U", "V", "W", "X", "Y", "Z"}
Digit     == {"0", "1", "2", "3", "4", "5", "6", "7", "8", "9"}
WordByte  == Lowercase \cup Uppercase \cup Digit \cup {"_"}

RECURSIVE WordRunEnd(_, _)
\* the offset just past the run of \w bytes that starts at offset i
WordRunEnd(s, i) ==
    IF i < Len(s) /\ At(s, i) \in WordByte THEN WordRunEnd(s, i + 1) ELSE i

\* Regex::find with XML_START_TAG = <\w+>|<\w+  (leftmost, first alternative first)
XML_START_TAG(s) ==
    LET at == {i \in 0..(Len(s) - 2) : At(s, i) = "<" /\ At(s, i + 1) \in WordByte}
    IN  IF at = {} THEN None
        ELSE LET i == Min(at)
                 e == WordRunEnd(s, i + 1)
             IN  Some([start |-> i,
                       end   |-> IF e < Len(s) /\ At(s, e) = ">" THEN e + 1 ELSE e])

\* </\w+> matches at offset i: the offset past it, or 0
CloseTagEnd(s, i) ==
    IF i + 2 < Len(s) /\ At(s, i) = "<" /\ At(s, i + 1) = "/" /\ At(s, i + 2) \in WordByte
    THEN LET e == WordRunEnd(s, i + 2)
         IN  IF e < Len(s) /\ At(s, e) = ">" THEN e + 1 ELSE 0
    ELSE 0

\* Regex::find with </?\w+>|/> , the slash of the closing tag optional
XML_END_TAG_optional_slash(s) ==
    LET at == {i \in 0..(Len(s) - 2) :
                  \/ CloseTagEnd(s, i) # 0
                  \/ At(s, i) = "/" /\ At(s, i + 1) = ">"
                  \/ /\ At(s, i) = "<" /\ At(s, i + 1) \in WordByte
                     /\ WordRunEnd(s, i + 1) < Len(s) /\ At(s, WordRunEnd(s, i + 1)) = ">"}
    IN  IF at = {} THEN None
        ELSE LET i == Min(at)
             IN  Some([start |-> i,
                       end   |-> IF CloseTagEnd(s, i) # 0 THEN CloseTagEnd(s, i)
                                 ELSE IF At(s, i) = "/" THEN i + 2
                                 ELSE WordRunEnd(s, i + 1) + 1])

\* Regex::find with XML_END_TAG = </\w+>|/>
XML_END_TAG(s) ==
    LET at == {i \in 0..(Len(s) - 2) :
                  \/ CloseTagEnd(s, i) # 0
                  \/ At(s, i) = "/" /\ At(s, i + 1) = ">"}
    IN  IF at = {} THEN None
        ELSE LET i == Min(at)
             IN  Some([start |-> i,
                       end   |-> IF CloseTagEnd(s, i) # 0 THEN CloseTagEnd(s, i) ELSE i + 2])

\* the offset of the first "/>" after offset i, when no newline comes before it:
\* sc and nl are the offsets of the first "/>" and the first newline after i
FirstSelfClose(i, sc, nl) ==
    IF sc >= 0 /\ (nl < 0 \/ nl > sc) THEN {i + 1 + sc} ELSE {}

\* the offset j > i of the nearest "/>" that "<" at offset i reaches without crossing
\* a newline, if there is one
SelfCloseFrom(s, i) ==
    FirstSelfClose(i, Find(Drop(s, i + 1), "/>"), Find(Drop(s, i + 1), "\n"))

\* Regex::find with XML_SELF_CLOSE_TAG = <.*?/>  (lazy; . matches no newline)
XML_SELF_CLOSE_TAG(s) ==
    IF Find(s, "/>") < 0 THEN None
    ELSE LET at == {i \in 0..(Len(s) - 3) : At(s, i) = "<" /\ SelfCloseFrom(s, i) # {}}
         IN  IF at = {} THEN None
             ELSE LET i == Min(at)
                  IN  Some([start |-> i, end |-> Min(SelfCloseFrom(s, i)) + 2])

RECURSIVE TrimStart(_, _)
TrimStart(s, set) ==
    IF Len(s) > 0 /\ At(s, 0) \in set THEN TrimStart(Drop(s, 1), set) ELSE s

RECURSIVE TrimEnd(_, _)
TrimEnd(s, set) ==
    IF Len(s) > 0 /\ At(s, Len(s) - 1) \in set THEN TrimEnd(Take(s, Len(s) - 1), set) ELSE s

\* str::trim_matches with a set of chars
trim_matches(s, set) == TrimEnd(TrimStart(s, set), set)

RECURSIVE Concat(_)
\* Vec<&str>::join("")
Concat(ss) == IF ss = <<>> THEN "" ELSE Head(ss) \o Concat(Tail(ss))

----------------------------------------------------------------------------
\* ChunkedXmlViewer

\* the length of the slice the debugging println! takes: &reference[..10]
PEEK == 10

\* ChunkedXmlViewer::from_str: the fields of the new viewer
from_str(text, n) ==
    LET pos == XML_START_TAG(text)[1]      \* .expect("no start tag found")
        m   == Slice(text, pos.start, pos.end)
    IN  [offset         |-> 0,
         len            |-> Len(text) - pos.end,
         num_chunks     |-> n,
         root_tag_start |-> m,
         root_tag_end   |-> "</" \o trim_matches(m, {"<", ">"}) \o ">",
         inner          |-> Drop(text, pos.end)]

Panic(why) == [ok |-> FALSE, offset |-> 0, why |-> why]
Fine(off)  == [ok |-> TRUE, offset |-> off, why |-> ""]

RECURSIVE element_loop(_, _, _)
RECURSIVE loop_pass(_, _, _, _, _, _)
\* the while depth != 0 loop of next_element
element_loop(reference, depth, off) ==
    IF depth = 0 THEN Fine(off)
    ELSE IF Len(reference) < PEEK THEN Panic("peek")            \* &reference[..10]
    ELSE loop_pass(reference, depth, off, XML_START_TAG(reference),
                   XML_END_TAG(reference), XML_SELF_CLOSE_TAG(reference))

\* one pass of that loop after its three regex searches
loop_pass(reference, depth, off, start, end, self_close) ==
    IF start = None \/ end = None THEN Panic("unwrap")          \* .unwrap() on None
    ELSE IF /\ self_close # None
            /\ self_close[1].start < start[1].start
            /\ self_close[1].start < end[1].start
         THEN element_loop(Drop(reference, self_close[1].end), depth,
                           off + self_close[1].end)
    ELSE IF start[1].start < end[1].start
         THEN element_loop(Drop(reference, start[1].end), depth + 1,
                           off + start[1].end)
    ELSE IF start[1].start > end[1].start
         THEN element_loop(Drop(reference, end[1].end), depth - 1,
                           off + end[1].end)
    ELSE Panic("unimplemented")

\* what next_element returns once its loop has ended with r
element_result(in, off, r) ==
    IF ~r.ok THEN [tag |-> "panic", val |-> r.why, offset |-> off]
    ELSE [tag    |-> "Some",
          val    |-> Slice(in, off, off + r.offset),
          offset |-> off + r.offset]

\* the first regex search of next_element and the loop it starts
element_from(in, off, reference, start) ==
    IF start = None THEN [tag |-> "None", val |-> "", offset |-> off]
    ELSE element_result(in, off,
                        element_loop(Drop(reference, start[1].end), 1, start[1].end))

\* ChunkedXmlViewer::next_element on a viewer at byte offset off:
\* tag "Some" (val the slice, offset the new self.offset), "None" or "panic"
next_element(in, off) ==
    element_from(in, off, Drop(in, off), XML_START_TAG(Drop(in, off)))

\* one pass of the while count != 0 loop of next_chunk, from the loop state p
\* with e the result of its next_element call
chunk_pass(p, e) ==
    IF e.tag = "panic" THEN [p EXCEPT !.tag = "panic"]
    ELSE IF e.tag = "None" THEN [p EXCEPT !.tag = "done"]
    ELSE [tag |-> "more", chunks |-> Append(p.chunks, e.val), offset |-> e.offset]

\* the while count != 0 loop of next_chunk: pass[k] is the state after k passes,
\* tag "more" while the loop goes on, "done" after the break, "panic" after a panic
chunk_loop(in, off, cnt, chunks) ==
    LET pass[k \in 0..cnt] ==
            IF k = 0 THEN [tag |-> "more", chunks |-> chunks, offset |-> off]
            ELSE IF pass[k - 1].tag # "more" THEN pass[k - 1]
            ELSE chunk_pass(pass[k - 1], next_element(in, pass[k - 1].offset))
    IN  pass[cnt]

\* what next_chunk returns once its loop has ended with r
chunk_result(r, open, close) ==
    IF r.tag = "panic" THEN [tag |-> "panic", val |-> "", offset |-> r.offset]
    ELSE IF Len(r.chunks) = 0 THEN [tag |-> "None", val |-> "", offset |-> r.offset]
    ELSE [tag    |-> "Some",
          val    |-> open \o Concat(r.chunks) \o close,
          offset |-> r.offset]

\* ChunkedXmlViewer::next_chunk
next_chunk(in, off, length, n, open, close) ==
    IF off >= length THEN [tag |-> "None", val |-> "", offset |-> off]
    ELSE chunk_result(chunk_loop(in, off, n, <<>>), open, close)

----------------------------------------------------------------------------
\* Inputs of the viewer: valid documents written from a list of children.

MaxKids      == 3
MaxChunkSize == 2
MaxCalls     == 5

RootOpen == {"<dblp>", "<dblp k='v'>"}
Kid      == {"<a><b/></a>", "<c>x</c>", "<b/>", "<a k='v'>xyzxyzxyzx</a>"}
Pad      == {"", "\n"}

KidLists == UNION {[1..n -> Kid] : n \in 0..MaxKids}

XmlText(open, ks, pad, tail) == open \o Concat(ks) \o pad \o "</dblp>" \o tail

ViewerIdle ==
    /\ input = "" /\ kids = <<>> /\ offset = 0 /\ len = 0 /\ num_chunks = 0
    /\ root_tag_start = "" /\ root_tag_end = "" /\ inner = ""
    /\ driver = "none" /\ vpc = "idle" /\ returned = <<>>

RelIdle ==
    /\ t_persons = <<>> /\ t_publications = <<>>
    /\ self = [id |-> 0, name |-> "", profile |-> "", aliases |-> ""]
    /\ range = <<0, 0>> /\ relation = None

TempIdle ==
    /\ persons = <<>> /\ results = <<>> /\ res = <<>> /\ chunk_at = 0
    /\ wpc = <<>> /\ wrel = <<>> /\ failed = {} /\ sent = 0 /\ count = 0
    /\ tpc = "idle" /\ target = None /\ saved = "none"

ProcIdle ==
    /\ DB_PATH = None /\ DB_CONN_POOL = None
    /\ db = [tables |-> FALSE, persons |-> <<>>, publications |-> <<>>,
             idx_profile |-> FALSE, indexes |-> {}]
    /\ op = [name |-> "none"] /\ ppc = "idle" /\ outcome = [kind |-> "none", why |-> ""]
    /\ xml_data = "" /\ committed = <<>> /\ at_call = None

PureIdle ==
    /\ fn_name = "none" /\ fn_arg = <<>> /\ fn_out = None

InitViewer ==
    /\ \E open \in RootOpen, ks \in KidLists, pad \in Pad, tail \in Pad,
          n \in 1..MaxChunkSize :
         LET text == XmlText(open, ks, pad, tail)
             v    == from_str(text, n)
         IN  /\ input = text
             /\ kids = ks
             /\ offset = v.offset
             /\ len = v.len
             /\ num_chunks = v.num_chunks
             /\ root_tag_start = v.root_tag_start
             /\ root_tag_end = v.root_tag_end
             /\ inner = v.inner
    /\ driver \in {"chunks", "elements"}
    /\ vpc = "ready"
    /\ returned = <<>>
    /\ RelIdle
    /\ TempIdle
    /\ ProcIdle
    /\ PureIdle

\* impl Iterator for ChunkedXmlViewer: one call of next(), that is of next_chunk
Iterator_next ==
    /\ driver = "chunks" /\ vpc = "ready" /\ Len(returned) < MaxCalls
    /\ \E r \in {next_chunk(inner, offset, len, num_chunks, root_tag_start, root_tag_end)} :
           /\ offset' = r.offset
           /\ vpc' = IF r.tag = "panic" THEN "panicked" ELSE "ready"
           /\ returned' = IF r.tag = "panic" THEN returned
                          ELSE Append(returned, IF r.tag = "Some" THEN Some(r.val) ELSE None)
    /\ UNCHANGED <<input, kids, len, num_chunks, root_tag_start, root_tag_end, inner, driver>>
    /\ UNCHANGED <<relVars, tempVars, procVars, pureVars>>

\* one call of next_element made directly, as test_chunk_viewer's loop makes it
Element_next ==
    /\ driver = "elements" /\ vpc = "ready" /\ Len(returned) < MaxCalls
    /\ \E r \in {next_element(inner, offset)} :
           /\ offset' = r.offset
           /\ vpc' = IF r.tag = "panic" THEN "panicked" ELSE "ready"
           /\ returned' = IF r.tag = "panic" THEN returned
                          ELSE Append(returned, IF r.tag = "Some" THEN Some(r.val) ELSE None)
    /\ UNCHANGED <<input, kids, len, num_chunks, root_tag_start, root_tag_end, inner, driver>>
    /\ UNCHANGED <<relVars, tempVars, procVars, pureVars>>

NextViewer == Iterator_next \/ Element_next

SpecViewer == InitViewer /\ [][NextViewer]_vars

----------------------------------------------------------------------------
\* Claims about the chunked viewer.

CeilDiv(a, b) == (a + b - 1) \div b

\* the i-th fragment (1-based) of the partition of the children into runs of num_chunks
ExpectedChunk(i) ==
    LET lo == (i - 1) * num_chunks + 1
        hi == IF i * num_chunks < Len(kids) THEN i * num_chunks ELSE Len(kids)
    IN  root_tag_start \o Concat(SubSeq(kids, lo, hi)) \o root_tag_end

Values(rs) == Concat([i \in 1..Len(rs) |-> IF rs[i] = None THEN "" ELSE rs[i][1]])

\* C1: every next_chunk call returns, the i-th call returns ROOT_OPEN + the i-th
\* run of at most num_chunks consecutive children + ROOT_CLOSE, and every call
\* after the last child's returns nothing.
C1_ChunksPartitionChildren ==
    driver = "chunks" =>
        /\ vpc # "panicked"
        /\ \A i \in 1..Len(returned) :
              returned[i] = IF i <= CeilDiv(Len(kids), num_chunks)
                            THEN Some(ExpectedChunk(i)) ELSE None

\* C2: no call of next_chunk or next_element panics, and once a call has
\* signalled the end every later call signals the end as well.
C2_IterationEndsWithoutPanic ==
    /\ vpc # "panicked"
    /\ \A i, j \in 1..Len(returned) : (i < j /\ returned[i] = None) => returned[j] = None

Blank == {" ", "\n"}

\* the offset of the first byte at or after i that is "<" or ">", or Len(s)
RECURSIVE NextAngle(_, _)
NextAngle(s, i) ==
    IF i < Len(s) /\ At(s, i) \notin {"<", ">"} THEN NextAngle(s, i + 1) ELSE i

Last(q) == q[Len(q)]
Front(q) == SubSeq(q, 1, Len(q) - 1)

\* s from offset i on is the rest of a well-formed document with one root element
\* named root: stack holds the names of the open elements, roots counts the root
\* elements already closed
RECURSIVE WellFormedFrom(_, _, _, _, _)
WellFormedFrom(s, i, stack, roots, root) ==
    IF i >= Len(s) THEN stack = <<>> /\ roots = 1
    ELSE IF At(s, i) # "<"
         THEN /\ stack # <<>> \/ At(s, i) \in Blank
              /\ WellFormedFrom(s, i + 1, stack, roots, root)
    ELSE IF CloseTagEnd(s, i) # 0
         THEN LET e == CloseTagEnd(s, i)
              IN  /\ stack # <<>>
                  /\ Last(stack) = Slice(s, i + 2, e - 1)
                  /\ WellFormedFrom(s, e, Front(stack),
                                    IF Len(stack) = 1 THEN roots + 1 ELSE roots, root)
    ELSE IF i + 1 < Len(s) /\ At(s, i + 1) \in WordByte
         THEN LET ne   == WordRunEnd(s, i + 1)
                  name == Slice(s, i + 1, ne)
                  g    == NextAngle(s, ne)
                  attr == Slice(s, ne, g)
                  selfclosing == Len(attr) > 0 /\ At(attr, Len(attr) - 1) = "/"
              IN  /\ g < Len(s) /\ At(s, g) = ">"
                  /\ attr = "" \/ attr = "/" \/ At(attr, 0) \in Blank
                  /\ stack = <<>> => (roots = 0 /\ name = root)
                  /\ WellFormedFrom(s, g + 1,
                                    IF selfclosing THEN stack ELSE Append(stack, name),
                                    IF selfclosing /\ stack = <<>> THEN roots + 1 ELSE roots,
                                    root)
    ELSE FALSE

WellFormed(s, root) == WellFormedFrom(s, 0, <<>>, 0, root)

\* C3: every fragment next_chunk returns is a well-formed document whose single
\* root element is the input's root, dblp.
C3_FragmentsWellFormed ==
    driver = "chunks" =>
        \A i \in 1..Len(returned) :
            returned[i] # None => WellFormed(returned[i][1], "dblp")

\* the offset just past the first ">" of the text: the end of the root's opening tag
RootOpenEnd(text) == Min({i \in 0..(Len(text) - 1) : At(text, i) = ">"}) + 1

\* the offset of the root's closing tag
RootCloseStart(text) ==
    CHOOSE i \in 0..(Len(text) - 7) :
        /\ Slice(text, i, i + 7) = "</dblp>"
        /\ \A j \in (i + 1)..(Len(text) - 7) : Slice(text, j, j + 7) # "</dblp>"

Region(text) == Slice(text, RootOpenEnd(text), RootCloseStart(text))

\* C4: no next_element call panics, the slices returned so far are, end to end,
\* the bytes of the region between the root's opening and closing tag from its
\* first byte on, and once the end is signalled they are the whole region.
C4_ElementsCoverRegion ==
    driver = "elements" =>
        /\ vpc # "panicked"
        /\ Values(returned) = Take(Region(input), Len(Values(returned)))
        /\ (\E i \in 1..Len(returned) : returned[i] = None) => Values(returned) = Region(input)

----------------------------------------------------------------------------
\* The bag encoding and PersonRecord::to_relations (db_items.rs)

SEPARATOR == "::"

RECURSIVE split(_, _)
\* str::split(sep), collected
split(s, sep) ==
    LET i == Find(s, sep)
    IN  IF i < 0 THEN <<s>>
        ELSE <<Take(s, i)>> \o split(Drop(s, i + Len(sep)), sep)

RECURSIVE trim_end_matches(_, _)
\* str::trim_end_matches with a string pattern: the suffix is removed repeatedly
trim_end_matches(s, pat) ==
    IF Len(s) >= Len(pat) /\ Drop(s, Len(s) - Len(pat)) = pat
    THEN trim_end_matches(Take(s, Len(s) - Len(pat)), pat)
    ELSE s

RECURSIVE join(_, _)
\* [String]::join(sep)
join(vec, sep) ==
    IF vec = <<>> THEN ""
    ELSE IF Len(vec) = 1 THEN vec[1]
    ELSE vec[1] \o sep \o join(Tail(vec), sep)

\* join_string_vec: the separator also at the start and at the end
join_string_vec_open(vec) ==
    IF Len(vec) = 0 THEN "" ELSE SEPARATOR \o join(vec, SEPARATOR)
join_string_vec(vec) ==
    IF Len(vec) = 0 THEN "" ELSE SEPARATOR \o join(vec, SEPARATOR) \o SEPARATOR

\* the authors column try_into_dblp_record writes for a list of author names
authors_column(names) ==
    IF Len(names) = 0 THEN None ELSE Some(join_string_vec(names))

\* SQLite folds the ASCII letters before LIKE compares them
Lower(c) ==
    CASE c = "A" -> "a" [] c = "B" -> "b" [] c = "C" -> "c" [] c = "D" -> "d"
      [] c = "E" -> "e" [] c = "F" -> "f" [] c = "G" -> "g" [] c = "H" -> "h"
      [] c = "I" -> "i" [] c = "J" -> "j" [] c = "K" -> "k" [] c = "L" -> "l"
      [] c = "M" -> "m" [] c = "N" -> "n" [] c = "O" -> "o" [] c = "P" -> "p"
      [] c = "Q" -> "q" [] c = "R" -> "r" [] c = "S" -> "s" [] c = "T" -> "t"
      [] c = "U" -> "u" [] c = "V" -> "v" [] c = "W" -> "w" [] c = "X" -> "x"
      [] c = "Y" -> "y" [] c = "Z" -> "z"
      [] OTHER -> c

RECURSIVE Like(_, _)
\* SQLite's  s LIKE pat : % any run of bytes, _ any one byte, letters compared
\* case-insensitively, no escape character
Like(s, pat) ==
    IF pat = "" THEN s = ""
    ELSE IF Head(pat) = "%"
         THEN Like(s, Tail(pat)) \/ (s # "" /\ Like(Tail(s), pat))
    ELSE IF s = "" THEN FALSE
    ELSE IF Head(pat) = "_" THEN Like(Tail(s), Tail(pat))
    ELSE Lower(Head(pat)) = Lower(Head(s)) /\ Like(Tail(s), Tail(pat))

Range(f) == {f[i] : i \in DOMAIN f}

\* the rows of to_relations' SELECT, as (year, authors) pairs: persons JOIN
\* publications ON authors LIKE '%::' || persons.name || '::%'
\* WHERE year >= start AND year <= end AND persons.id = id.  A NULL year or a
\* NULL authors column satisfies no comparison.
relation_rows(id, start, end) ==
    {[year |-> pub.year[1], authors |-> pub.authors[1]] :
        pub \in {q \in Range(t_publications) :
                    /\ q.year # None /\ q.authors # None
                    /\ q.year[1] >= start /\ q.year[1] <= end
                    /\ \E p \in Range(t_persons) :
                          /\ p.id = id
                          /\ Like(q.authors[1], "%::" \o p.name \o "::%")}}

\* the names the inner for loop adds for year yr: every row of that year, its
\* authors with the trailing separator trimmed, split at the separator
co_auth(a, yr) ==
    UNION {Range(split(trim_end_matches(assoc.authors, SEPARATOR), SEPARATOR)) :
              assoc \in {r \in a : r.year = yr}}

\* one round of the for yr in start..=end loop: the accumulator after it
year_step_per_year(co_authors, a, yr, name) == co_auth(a, yr) \ {name}
year_step_keeps_self(co_authors, a, yr, name) == co_authors \cup co_auth(a, yr)
year_step(co_authors, a, yr, name) == (co_authors \cup co_auth(a, yr)) \ {name}

RECURSIVE coauthor_years(_, _, _, _, _)
\* the vector the loop pushes a clone of the accumulator to, from year yr on
coauthor_years(co_authors, a, yr, end, name) ==
    IF yr > end THEN <<>>
    ELSE LET next == year_step(co_authors, a, yr, name)
         IN  <<next>> \o coauthor_years(next, a, yr + 1, end, name)

\* PersonRecord::to_relations(&self, start, end), when no statement fails
to_relations(person, start, end) ==
    [author         |-> person.name,
     years          |-> <<start, end>>,
     coauthor_years |-> coauthor_years({}, relation_rows(person.id, start, end),
                                       start, end, person.name)]

----------------------------------------------------------------------------
\* The CSV fields of a relation (db_items.rs:373-414).

DigitChars == <<"0", "1", "2", "3", "4", "5", "6", "7", "8", "9">>

RECURSIVE u32_to_string(_)
\* u32::to_string: the decimal digits, most significant first
u32_to_string(n) ==
    IF n < 10 THEN DigitChars[n + 1]
    ELSE u32_to_string(n \div 10) \o DigitChars[(n % 10) + 1]

\* PersonTemporalRelation::to_csv_headers: "author", then every year of years.0..=years.1
to_csv_headers(rel) ==
    <<"author">> \o [k \in 1..(IF rel.years[2] >= rel.years[1]
                               THEN rel.years[2] - rel.years[1] + 1 ELSE 0) |->
                       u32_to_string(rel.years[1] + k - 1)]

\* the set the inner loop of to_csv_row collects for one limit
cumulative(rel, limit) == UNION {rel.coauthor_years[i] : i \in 1..limit}

\* the orders in which iterating a HashSet may yield its elements
Orders(S) == {o \in [1..Cardinality(S) -> S] : \A x \in S : \E i \in DOMAIN o : o[i] = x}

\* the texts coauthors.iter().map(..).collect::<Vec<_>>().join(SEPARATOR) may be
Cells(S) == {join(o, SEPARATOR) : o \in Orders(S)}

RECURSIVE cells_from(_, _)
\* the cells to_csv_row pushes for the limits from limit on
cells_from(rel, limit) ==
    IF limit > Len(rel.coauthor_years) THEN {<<>>}
    ELSE {<<c>> \o rest : c \in Cells(cumulative(rel, limit)),
                          rest \in cells_from(rel, limit + 1)}

\* PersonTemporalRelation::to_csv_row: the rows it may return
to_csv_row(rel) == {<<rel.author>> \o cells : cells \in cells_from(rel, 1)}

----------------------------------------------------------------------------
\* Stores and persons the relation is computed from.

MaxPubs == 3

PersonRow(i, n) == [id |-> i, name |-> n, profile |-> "homepages/" \o n, aliases |-> ""]

\* one Home Page record per name, inserted in this order
PersonsTable == <<PersonRow(1, "A"), PersonRow(2, "B"), PersonRow(3, "a"), PersonRow(4, "")>>

\* publications an ingest may have written: year (or none) and author names
PubPool ==
    << [year |-> Some(1999), names |-> <<"A", "B">>],
       [year |-> Some(2000), names |-> <<"A", "B">>],
       [year |-> Some(2001), names |-> <<"A", "C">>],
       [year |-> Some(2002), names |-> <<"A", "B", "D">>],
       [year |-> Some(2001), names |-> <<"B", "C">>],
       [year |-> Some(2000), names |-> <<"a", "D">>],
       [year |-> None,       names |-> <<"A", "D">>],
       [year |-> Some(2001), names |-> <<>>],
       [year |-> Some(2002), names |-> <<"B">>],
       [year |-> Some(2000), names |-> <<"A">>] >>

RECURSIVE SortedSeq(_)
SortedSeq(S) == IF S = {} THEN <<>> ELSE <<Min(S)>> \o SortedSeq(S \ {Min(S)})

\* the publications table after the pool's publications picked were inserted in order
PublicationsTable(picked) ==
    LET order == SortedSeq(picked)
    IN  [i \in 1..Len(order) |->
            [id      |-> i,
             key     |-> "k" \o ToString(order[i]),
             year    |-> PubPool[order[i]].year,
             authors |-> authors_column(PubPool[order[i]].names)]]

Stores == {PublicationsTable(picked) :
              picked \in {S \in SUBSET (1..Len(PubPool)) : Cardinality(S) <= MaxPubs}}

Ranges == {<<2000, 2000>>, <<2000, 2001>>, <<2000, 2002>>, <<2001, 2002>>, <<2001, 2000>>}

InitRelations ==
    /\ t_persons = PersonsTable
    /\ t_publications \in Stores
    /\ self \in Range(PersonsTable)
    /\ range \in Ranges
    /\ relation = None
    /\ ViewerIdle
    /\ TempIdle
    /\ ProcIdle
    /\ PureIdle

\* one call of to_relations on the person, against the store
to_relations_call ==
    /\ relation = None
    /\ relation' = Some(to_relations(self, range[1], range[2]))
    /\ UNCHANGED <<t_persons, t_publications, self, range>>
    /\ UNCHANGED <<viewerVars, tempVars, procVars, pureVars>>

NextRelations == to_relations_call

SpecRelations == InitRelations /\ [][NextRelations]_vars

----------------------------------------------------------------------------
\* Claims about to_relations.

\* the names a stored authors column lists
Name == {"A", "B", "C", "D", "a"}
NamesIn(col) == IF col = None THEN {}
                ELSE {n \in Name : Find(col[1], "::" \o n \o "::") >= 0}

\* the other authors of the publications that list name and are dated yr or earlier
CoauthorsThrough(name, yr) ==
    UNION {NamesIn(pub.authors) \ {name} :
              pub \in {q \in Range(t_publications) :
                          /\ q.year # None /\ q.year[1] <= yr
                          /\ name \in NamesIn(q.authors)}}

\* C5: element k of coauthor_years is the set of the other authors of all
\* publications listing the person and dated start+k or earlier, those dated
\* before start included.
C5_CumulativeCoauthors ==
    (relation # None /\ range[1] <= range[2]) =>
        /\ Len(relation[1].coauthor_years) = range[2] - range[1] + 1
        /\ \A k \in 0..(range[2] - range[1]) :
              relation[1].coauthor_years[k + 1] = CoauthorsThrough(self.name, range[1] + k)

ExamplePicked == {2, 3, 4}

\* C6: for A with (2000,[A,B]), (2001,[A,C]), (2002,[A,B,D]) over [2000,2002]
\* coauthor_years is [{B},{B,C},{B,C,D}], and in general every element of every
\* set is a name some stored publication lists.
C6_ExampleAndOnlyNames ==
    relation # None =>
        /\ (/\ t_publications = PublicationsTable(ExamplePicked)
            /\ self.name = "A" /\ range = <<2000, 2002>>)
           => relation[1].coauthor_years = <<{"B"}, {"B", "C"}, {"B", "C", "D"}>>
        /\ \A k \in 1..Len(relation[1].coauthor_years) :
              relation[1].coauthor_years[k]
                  \subseteq UNION {NamesIn(pub.authors) : pub \in Range(t_publications)}

\* C7: coauthor_years[k] is a subset of coauthor_years[k+1] for every k.
C7_Monotone ==
    relation # None =>
        \A k \in 1..(Len(relation[1].coauthor_years) - 1) :
            relation[1].coauthor_years[k] \subseteq relation[1].coauthor_years[k + 1]

\* a relation whose sets grow strictly, twice, from a non-empty first set
C7_Witness ==
    /\ relation # None
    /\ Len(relation[1].coauthor_years) = 3
    /\ relation[1].coauthor_years[1] # {}
    /\ relation[1].coauthor_years[1] # relation[1].coauthor_years[2]
    /\ relation[1].coauthor_years[2] # relation[1].coauthor_years[3]

\* C8: the person's own name is in no set of coauthor_years.
C8_SelfExcluded ==
    relation # None =>
        \A k \in 1..Len(relation[1].coauthor_years) :
            self.name \notin relation[1].coauthor_years[k]

\* a relation built from a row whose decoded bag holds the person's own name
C8_Witness ==
    /\ relation # None
    /\ \E r \in relation_rows(self.id, range[1], range[2]) :
          /\ self.name \in co_auth({r}, r.year)
          /\ relation[1].coauthor_years[r.year - range[1] + 1] \cap Name # {}

----------------------------------------------------------------------------
\* temporal_relation (lib.rs): chunks of two persons, one parallel worker per
\* person of the chunk, a progress thread counting the workers' messages.

MaxPersons == 3

\* persons.chunks(2)
PAR_CHUNK == 2

\* the element the slot buffer is filled with
Placeholder_with_range == [author |-> "", years |-> range, coauthor_years |-> <<>>]
Placeholder == [author |-> "", years |-> <<0, 0>>, coauthor_years |-> <<>>]

\* the length of the chunk that starts at 0-based index at
ChunkLen(at) == IF Len(persons) - at < PAR_CHUNK THEN Len(persons) - at ELSE PAR_CHUNK

\* the slot a worker with enumerate() index idx writes (1-based slot idx + 1)
slot_of_first(idx) == 1
slot_of(idx) == idx + 1

\* results.extend(res.into_inner().unwrap())
extend(out, buf) == out \o buf

\* the names in the sets of the relations
names_of(relations) ==
    UNION {UNION Range(relations[i].coauthor_years) : i \in DOMAIN relations}

\* rec.to_csv_row() when every set is iterated in the order of its names in order
to_csv_row_in(rel, order) ==
    <<rel.author>> \o
    [limit \in 1..Len(rel.coauthor_years) |->
        join(SelectSeq(order, LAMBDA n : n \in cumulative(rel, limit)), SEPARATOR)]

RECURSIVE write_records(_, _, _, _)
\* csv::Writer::write_record for the rows from the k-th on, after the records of acc:
\* a writer that is not flexible refuses a record whose number of fields is not that
\* of the first record; the fields of the refused record are in the buffer by then,
\* and dropping the writer flushes the buffer
write_records(first_field_count, rows, k, acc) ==
    IF k > Len(rows) THEN [result |-> "Ok", file |-> Some(acc)]
    ELSE IF Len(rows[k]) # first_field_count
         THEN [result |-> "Err", file |-> Some(Append(acc, rows[k]))]
    ELSE write_records(first_field_count, rows, k + 1, Append(acc, rows[k]))

\* save_temporal_relation(relation, target), rows being what to_csv_row returns for
\* each relation: the result, and the file at target afterwards
save_temporal_relation(relations, rows) ==
    IF Len(relations) = 0 THEN [result |-> "Ok", file |-> None]
    ELSE IF \E i \in 1..Len(relations) : relations[i].years # relations[1].years
         THEN [result |-> "Err", file |-> None]
    ELSE write_records(Len(to_csv_headers(relations[1])), rows, 1,
                       <<to_csv_headers(relations[1])>>)

PersonLists == UNION {[1..n -> {PersonsTable[1], PersonsTable[2], PersonsTable[3]}] :
                         n \in 0..MaxPersons}

TemporalStores == {PublicationsTable(ExamplePicked), PublicationsTable({1, 5, 6})}

InitTemporal ==
    /\ t_persons = PersonsTable
    /\ t_publications \in TemporalStores
    /\ self = [id |-> 0, name |-> "", profile |-> "", aliases |-> ""]
    /\ range \in {<<2000, 2001>>, <<2001, 2000>>}
    /\ relation = None
    /\ persons \in PersonLists
    /\ results = <<>> /\ res = <<>> /\ chunk_at = 0
    /\ wpc = <<>> /\ wrel = <<>> /\ failed = {}
    /\ sent = 0 /\ count = 0
    /\ tpc = "loop"
    /\ target = None /\ saved = "none"
    /\ ViewerIdle
    /\ ProcIdle
    /\ PureIdle

\* for chunk in persons.chunks(2): the slot buffer of placeholders, then par_iter
begin_chunk ==
    /\ tpc = "loop" /\ chunk_at < Len(persons)
    /\ res' = [j \in 1..ChunkLen(chunk_at) |-> Placeholder]
    /\ wpc' = [j \in 1..ChunkLen(chunk_at) |-> "query"]
    /\ wrel' = [j \in 1..ChunkLen(chunk_at) |-> Placeholder]
    /\ tpc' = "par"
    /\ UNCHANGED <<persons, results, chunk_at, failed, sent, count, target, saved>>
    /\ UNCHANGED <<viewerVars, relVars, procVars, pureVars>>

\* the worker of enumerate() index idx: person.to_relations(..) returns Ok(r)
worker_query_ok(idx) ==
    /\ tpc = "par" /\ idx + 1 \in DOMAIN wpc /\ wpc[idx + 1] = "query"
    /\ wrel' = [wrel EXCEPT ![idx + 1] =
                   to_relations(persons[chunk_at + idx + 1], range[1], range[2])]
    /\ wpc' = [wpc EXCEPT ![idx + 1] = "send"]
    /\ UNCHANGED <<persons, results, res, chunk_at, failed, sent, count, tpc, target, saved>>
    /\ UNCHANGED <<viewerVars, relVars, procVars, pureVars>>

\* person.to_relations(..) returns Err(e): eprintln!, return
worker_query_err(idx) ==
    /\ tpc = "par" /\ idx + 1 \in DOMAIN wpc /\ wpc[idx + 1] = "query"
    /\ failed' = failed \cup {chunk_at + idx + 1}
    /\ wpc' = [wpc EXCEPT ![idx + 1] = "done"]
    /\ UNCHANGED <<persons, results, res, chunk_at, wrel, sent, count, tpc, target, saved>>
    /\ UNCHANGED <<viewerVars, relVars, procVars, pureVars>>

\* tx.send(())
worker_send(idx) ==
    /\ tpc = "par" /\ idx + 1 \in DOMAIN wpc /\ wpc[idx + 1] = "send"
    /\ sent' = sent + 1
    /\ wpc' = [wpc EXCEPT ![idx + 1] = "write"]
    /\ UNCHANGED <<persons, results, res, chunk_at, wrel, failed, count, tpc, target, saved>>
    /\ UNCHANGED <<viewerVars, relVars, procVars, pureVars>>

\* res.lock().unwrap()[idx] = rel
worker_write(idx) ==
    /\ tpc = "par" /\ idx + 1 \in DOMAIN wpc /\ wpc[idx + 1] = "write"
    /\ res' = [res EXCEPT ![slot_of(idx)] = wrel[idx + 1]]
    /\ wpc' = [wpc EXCEPT ![idx + 1] = "done"]
    /\ UNCHANGED <<persons, results, chunk_at, wrel, failed, sent, count, tpc, target, saved>>
    /\ UNCHANGED <<viewerVars, relVars, procVars, pureVars>>

\* for_each has returned: results.extend(..), on to the next chunk
end_chunk ==
    /\ tpc = "par" /\ \A j \in DOMAIN wpc : wpc[j] = "done"
    /\ results' = extend(results, res)
    /\ chunk_at' = chunk_at + PAR_CHUNK
    /\ tpc' = "loop"
    /\ UNCHANGED <<persons, res, wpc, wrel, failed, sent, count, target, saved>>
    /\ UNCHANGED <<viewerVars, relVars, procVars, pureVars>>

\* drop(tx) after the last chunk
drop_tx ==
    /\ tpc = "loop" /\ chunk_at >= Len(persons)
    /\ tpc' = "join"
    /\ UNCHANGED <<persons, results, res, chunk_at, wpc, wrel, failed, sent, count, target, saved>>
    /\ UNCHANGED <<viewerVars, relVars, procVars, pureVars>>

\* the progress thread: while let Ok(_) = rx.recv() { count += 1 }
progress_recv ==
    /\ tpc \in {"loop", "par", "join"} /\ sent > 0
    /\ sent' = sent - 1
    /\ count' = count + 1
    /\ UNCHANGED <<persons, results, res, chunk_at, wpc, wrel, failed, tpc, target, saved>>
    /\ UNCHANGED <<viewerVars, relVars, procVars, pureVars>>

\* recv() fails once the channel is empty and tx dropped: the thread ends,
\* handle.join() returns, temporal_relation returns results
join_and_return ==
    /\ tpc = "join" /\ sent = 0
    /\ tpc' = "returned"
    /\ UNCHANGED <<persons, results, res, chunk_at, wpc, wrel, failed, sent, count, target, saved>>
    /\ UNCHANGED <<viewerVars, relVars, procVars, pureVars>>

\* save_temporal_relation on the list temporal_relation returned, target naming a
\* file that does not exist yet; the sets are iterated in some order of the names
save_temporal_relation_call ==
    /\ tpc = "returned" /\ saved = "none"
    /\ \E order \in Orders(names_of(results)) :
          \E r \in {save_temporal_relation(
                        results, [i \in DOMAIN results |-> to_csv_row_in(results[i], order)])} :
             /\ saved' = r.result
             /\ target' = r.file
    /\ UNCHANGED <<persons, results, res, chunk_at, wpc, wrel, failed, sent, count, tpc>>
    /\ UNCHANGED <<viewerVars, relVars, procVars, pureVars>>

NextTemporal ==
    \/ begin_chunk
    \/ \E idx \in 0..(PAR_CHUNK - 1) :
          worker_query_err(idx) \/ worker_send(idx) \/ worker_write(idx) \/ worker_query_ok(idx)
    \/ end_chunk
    \/ drop_tx
    \/ progress_recv
    \/ join_and_return
    \/ save_temporal_relation_call

SpecTemporal == InitTemporal /\ [][NextTemporal]_vars

----------------------------------------------------------------------------
\* Claims about temporal_relation.

\* C9: whatever the interleaving, a worker's write lands in the slot of its own
\* person, and the returned list has one entry per input person, in input
\* order: entry i of every person processed successfully carries its name.
C9_OneEntryPerPersonInOrder ==
    /\ tpc = "par" =>
          \A j \in DOMAIN res :
              \/ res[j] = Placeholder
              \/ res[j].author = persons[chunk_at + j].name
    /\ tpc = "returned" =>
          /\ Len(results) = Len(persons)
          /\ \A i \in 1..Len(persons) :
                i \notin failed => results[i].author = persons[i].name

\* a returned list of two chunks whose three persons all succeeded, the two of
\* the first chunk being different persons
C9_Witness ==
    /\ tpc = "returned"
    /\ Len(persons) = 3
    /\ failed = {}
    /\ persons[1].name # persons[2].name
    /\ count = 3

\* C10: whichever persons to_relations failed for, temporal_relation can always
\* take a further step until it has returned; in the list it returns a failed
\* person's entry is the placeholder ("", (0,0), no sets) and every other
\* entry is the relation to_relations gives for that person.
C10_FailureIsolated ==
    /\ tpc # "returned" => ENABLED NextTemporal
    /\ tpc = "returned" =>
          /\ Len(results) = Len(persons)
          /\ \A i \in 1..Len(persons) :
                results[i] = IF i \in failed
                             THEN [author |-> "", years |-> <<0, 0>>, coauthor_years |-> <<>>]
                             ELSE to_relations(persons[i], range[1], range[2])

\* a returned list where exactly one of three persons failed, a person of the
\* first chunk whose chunk mate succeeded
C10_Witness ==
    /\ tpc = "returned"
    /\ Len(persons) = 3
    /\ failed = {1}
    /\ results[2].author = persons[2].name
    /\ results[2].coauthor_years # <<>>

----------------------------------------------------------------------------
\* Decoding a chunk: quick_xml::de::from_str::<RawDblp> (db.rs:211) over the
\* subset of XML the inputs use: elements with attributes in single quotes,
\* text or child elements as content, blanks between elements.  Lists may be
\* interleaved (the crate is built with quick-xml's overlapped-lists).

Failed == [ok |-> FALSE]

IsName(n) == Len(n) > 0 /\ \A i \in 0..(Len(n) - 1) : At(n, i) \in WordByte

\* the name and the attributes in the text between "<" and ">"
tag_name(header) ==
    IF Find(header, " ") < 0 THEN header ELSE Take(header, Find(header, " "))
tag_attrs(header) ==
    IF Find(header, " ") < 0 THEN "" ELSE Drop(header, Find(header, " ") + 1)

\* the element whose start tag holds header and is followed by body
element_parts(header, body, close) ==
    IF ~IsName(tag_name(header)) \/ Find(body, close) < 0 THEN Failed
    ELSE [ok      |-> TRUE,
          name    |-> tag_name(header),
          attrs   |-> tag_attrs(header),
          content |-> Take(body, Find(body, close)),
          rest    |-> Drop(body, Find(body, close) + Len(close))]

\* the element that starts at the first byte of s
read_element(s) ==
    IF Len(s) = 0 \/ At(s, 0) # "<" \/ Find(s, ">") < 0 THEN Failed
    ELSE element_parts(Slice(s, 1, Find(s, ">")), Drop(s, Find(s, ">") + 1),
                       "</" \o tag_name(Slice(s, 1, Find(s, ">"))) \o ">")

RECURSIVE read_elements(_)
RECURSIVE read_more(_)
\* the elements s consists of, blanks between them skipped
read_elements(s) ==
    IF TrimStart(s, {" ", "\n"}) = "" THEN [ok |-> TRUE, items |-> <<>>]
    ELSE read_more(read_element(TrimStart(s, {" ", "\n"})))

read_more(e) ==
    IF ~e.ok \/ ~read_elements(e.rest).ok THEN Failed
    ELSE [ok |-> TRUE, items |-> <<e>> \o read_elements(e.rest).items]

\* the value of attribute name in attrs: None or Some(value)
attr_value(attrs, name) ==
    IF Find(attrs, name \o "='") < 0 THEN None
    ELSE Some(Take(Drop(attrs, Find(attrs, name \o "='") + Len(name) + 2),
                   Find(Drop(attrs, Find(attrs, name \o "='") + Len(name) + 2), "'")))

\* the texts of the child elements called name, in source order
field_texts(fields, name) ==
    LET hits == SelectSeq(fields, LAMBDA f : f.name = name)
    IN  [i \in 1..Len(hits) |-> hits[i].content]

\* the longest decimal text whose value fits TLC's integers as well as u32;
\* the year texts of the inputs have four digits
U32_DIGITS == 9

RECURSIVE digits_value(_, _)
digits_value(t, acc) ==
    IF t = "" THEN acc
    ELSE digits_value(Drop(t, 1),
                      10 * acc + (CHOOSE d \in 0..9 : At("0123456789", d) = At(t, 0)))

\* str::parse::<u32>: None on anything but a decimal number that fits
parse_u32(t) ==
    IF \/ Len(t) = 0 \/ Len(t) > U32_DIGITS
       \/ \E i \in 0..(Len(t) - 1) : At(t, i) \notin Digit
    THEN None
    ELSE Some(digits_value(t, 0))

\* xml_items.rs PublicationRecord, from the attributes and the child elements of
\* a record: key is required, year must parse as u32 when present
publication_from(attrs, fields) ==
    IF \/ ~fields.ok
       \/ attr_value(attrs, "key") = None
       \/ /\ field_texts(fields.items, "year") # <<>>
          /\ parse_u32(field_texts(fields.items, "year")[1]) = None
    THEN Failed
    ELSE [ok        |-> TRUE,
          key       |-> attr_value(attrs, "key")[1],
          mdate     |-> attr_value(attrs, "mdate"),
          publtype  |-> attr_value(attrs, "publtype"),
          year      |-> IF field_texts(fields.items, "year") = <<>> THEN None
                        ELSE parse_u32(field_texts(fields.items, "year")[1]),
          authors   |-> field_texts(fields.items, "author"),
          school    |-> field_texts(fields.items, "school"),
          publisher |-> field_texts(fields.items, "publisher"),
          citations |-> field_texts(fields.items, "cite")]

\* xml_items.rs WebPage
web_page_from(attrs, fields) ==
    IF ~fields.ok \/ attr_value(attrs, "key") = None THEN Failed
    ELSE [ok     |-> TRUE,
          key    |-> attr_value(attrs, "key")[1],
          title  |-> field_texts(fields.items, "title"),
          url    |-> field_texts(fields.items, "url"),
          author |-> field_texts(fields.items, "author")]

\* the element names of RawDblp's publication lists, in the order of its fields
PublicationTags == <<"article", "inproceedings", "proceedings", "book",
                     "incollection", "phdthesis", "mastersthesis", "data">>

\* one top-level child decoded as the struct its name selects; other names are skipped
record_from(e) ==
    IF e.name = "www" THEN web_page_from(e.attrs, read_elements(e.content))
    ELSE IF e.name \in Range(PublicationTags)
         THEN publication_from(e.attrs, read_elements(e.content))
    ELSE [ok |-> TRUE]

\* the list of RawDblp that collects the children called tag
raw_list(items, tag) ==
    LET hits == SelectSeq(items, LAMBDA e : e.name = tag)
    IN  [i \in 1..Len(hits) |-> record_from(hits[i])]

raw_dblp_from(root, children) ==
    IF \/ ~root.ok
       \/ TrimStart(root.rest, {" ", "\n"}) # ""
       \/ ~children.ok
       \/ \E i \in 1..Len(children.items) : ~record_from(children.items[i]).ok
    THEN Failed
    ELSE [ok        |-> TRUE,
          lists     |-> [t \in Range(PublicationTags) |-> raw_list(children.items, t)],
          web_pages |-> raw_list(children.items, "www")]

\* quick_xml::de::from_str::<RawDblp>(text)
RawDblp(text) ==
    raw_dblp_from(read_element(TrimStart(text, {" ", "\n"})),
                  IF read_element(TrimStart(text, {" ", "\n"})).ok
                  THEN read_elements(read_element(TrimStart(text, {" ", "\n"})).content)
                  ELSE Failed)

----------------------------------------------------------------------------
\* Flattening (db_items.rs:428-583)

\* char::is_alphabetic, over the bytes the inputs use
Alphabetic == Lowercase \cup Uppercase

\* the closure of the citations filter_map: TRUE when the citation is kept
keep_nonempty(c) == Len(c) # 0
keep_citation(c) ==
    /\ Len(c) # 0
    /\ ~(\A i \in 0..(Len(c) - 1) : At(c, i) \notin Alphabetic)

\* match val.len() { 0 => None, _ => Some(join_string_vec(val)) }
list_column(val) ==
    IF Len(val) = 0 THEN None ELSE Some(join_string_vec(val))

\* impl Display for PublicationRecord, by the element name of the record
record_name(tag) ==
    CASE tag = "inproceedings" -> "inproceeding"
      [] tag = "proceedings"   -> "proceeding"
      [] OTHER                 -> tag

\* try_into_dblp_record!: TryFrom<$from_ty> for DblpRecord
try_into_dblp_record(tag, value) ==
    [record    |-> record_name(tag),
     key       |-> value.key,
     mdate     |-> value.mdate,
     publtype  |-> value.publtype,
     year      |-> value.year,
     authors   |-> authors_column(value.authors),
     citations |-> list_column(SelectSeq(value.citations, keep_citation)),
     publisher |-> list_column(value.publisher),
     school    |-> list_column(value.school)]

\* the match on value.title.first() in TryFrom<WebPage> for PersonRecord
is_home_page_any(title) == \E i \in 1..Len(title) : title[i] = "Home Page"
is_home_page(title) == Len(title) > 0 /\ title[1] = "Home Page"

\* TryFrom<WebPage> for PersonRecord: None for Err(()), Some(record) for Ok
try_from_web_page(value) ==
    IF ~is_home_page(value.title) THEN None
    ELSE Some([id      |-> 0,
               name    |-> IF Len(value.author) = 0 THEN "" ELSE value.author[1],
               profile |-> value.key,
               aliases |-> join_string_vec(IF Len(value.author) = 0 THEN <<>>
                                           ELSE Tail(value.author))])

\* the lists From<RawDblp> extends publications with, in its order: data is not one
ExtendedTags == <<"article", "inproceedings", "proceedings", "book",
                  "incollection", "phdthesis", "mastersthesis">>

RECURSIVE extend_publications(_, _)
\* extend_publications! over the lists from the k-th on
extend_publications(raw, k) ==
    IF k > Len(ExtendedTags) THEN <<>>
    ELSE [i \in 1..Len(raw.lists[ExtendedTags[k]]) |->
             try_into_dblp_record(ExtendedTags[k], raw.lists[ExtendedTags[k]][i])]
         \o extend_publications(raw, k + 1)

RECURSIVE filter_map_persons(_)
filter_map_persons(pages) ==
    IF pages = <<>> THEN <<>>
    ELSE try_from_web_page(Head(pages)) \o filter_map_persons(Tail(pages))

\* impl From<RawDblp> for (Vec<DblpRecord>, Vec<PersonRecord>)
from_raw_dblp(raw) ==
    [publications |-> extend_publications(raw, 1),
     persons      |-> filter_map_persons(raw.web_pages)]

----------------------------------------------------------------------------
\* strip_references (dataset.rs:21-35)

RECURSIVE AlphaRunEnd(_, _)
\* the offset just past the run of [[:alpha:]] bytes that starts at offset i
AlphaRunEnd(s, i) ==
    IF i < Len(s) /\ At(s, i) \in Alphabetic THEN AlphaRunEnd(s, i + 1) ELSE i

\* XML_REF_REGEX = &[[:alpha:]]+; matches at offset 0 of s: the length of the match, or 0
XML_REF_REGEX(s) ==
    IF /\ Len(s) >= 3 /\ At(s, 0) = "&"
       /\ AlphaRunEnd(s, 1) > 1
       /\ AlphaRunEnd(s, 1) < Len(s)
       /\ At(s, AlphaRunEnd(s, 1)) = ";"
    THEN AlphaRunEnd(s, 1) + 1
    ELSE 0

RECURSIVE strip_references(_)
RECURSIVE strip_from(_, _)
\* regex.replace_all(input_xml, ""): one left-to-right pass over the input,
\* from one "&" to the next
strip_references(input_xml) ==
    IF Find(input_xml, "&") < 0 THEN input_xml
    ELSE strip_from(input_xml, Find(input_xml, "&"))

\* the same pass over s, whose first "&" is at offset i
strip_from(s, i) ==
    IF XML_REF_REGEX(Drop(s, i)) > 0
    THEN Take(s, i) \o strip_references(Drop(s, i + XML_REF_REGEX(Drop(s, i))))
    ELSE Take(s, i + 1) \o strip_references(Drop(s, i + 1))

----------------------------------------------------------------------------
\* The store (db.rs:32-222): db is the sqlite file

\* the indexes create_all_indexes creates besides the unique idx_profile
PlainIndexes == {"idx_year", "idx_authors", "idx_citations", "idx_author_name"}

\* DROP TABLE IF EXISTS persons, publications; drop_all_indexes
clear_tables_keeps_rows(d) == [d EXCEPT !.idx_profile = FALSE, !.indexes = {}]
clear_tables_keeps_indexes(d) ==
    [d EXCEPT !.tables = FALSE, !.persons = <<>>, !.publications = <<>>]
clear_tables(d) ==
    [tables |-> FALSE, persons |-> <<>>, publications |-> <<>>,
     idx_profile |-> FALSE, indexes |-> {}]

\* CREATE TABLE IF NOT EXISTS persons, publications
create_tables(d) == [d EXCEPT !.tables = TRUE]

\* two rows of persons with the same profile
SharedProfile(rows) ==
    \E i, j \in 1..Len(rows) : i # j /\ rows[i].profile = rows[j].profile

\* the persons rows after INSERT INTO persons (name, profile, aliases): id is the rowid
insert_persons(rows, new) ==
    rows \o [i \in 1..Len(new) |-> [new[i] EXCEPT !.id = Len(rows) + i]]

\* dump_into_database: one transaction; a failing statement leaves the store as it was
dump_into_database(d, records, new) ==
    IF ~d.tables \/ (d.idx_profile /\ SharedProfile(insert_persons(d.persons, new)))
    THEN [ok |-> FALSE, db |-> d]
    ELSE [ok |-> TRUE,
          db |-> [d EXCEPT !.publications = d.publications \o records,
                           !.persons = insert_persons(d.persons, new)]]

\* create_all_indexes: CREATE UNIQUE INDEX idx_profile ON persons(profile) comes
\* first, and its ? returns before any other index is created
create_all_indexes(d) ==
    IF ~d.tables \/ SharedProfile(d.persons) THEN [ok |-> FALSE, db |-> d]
    ELSE [ok |-> TRUE, db |-> [d EXCEPT !.idx_profile = TRUE, !.indexes = PlainIndexes]]

\* check_database: both SELECT COUNT statements prepare
check_database(d) == d.tables

----------------------------------------------------------------------------
\* The process: init_from_sqlite, init_from_xml and the queries (lib.rs).
\* A panic unwinds to the Python caller, which may go on calling; the model
\* follows the process up to the end of its first init_from_xml.

DB_DEFAULT_PATH == "dblp.sqlite"

\* the number of level 1 elements chunked_deserialize_insert asks per chunk
\* (1000 in db.rs:199), scaled to the size of the inputs
CHUNK_SIZE == 1
MaxRecords == 3

HomeA   == "<www key='h/a'><author>A</author><title>Home Page</title></www>"
HomeA2  == "<www key='h/a'><author>B</author><author>B&uuml;</author><title>Home Page</title></www>"
Article == "<article key='j/1'><author>A</author><year>2001</year><cite>...</cite></article>"
BadYear == "<article key='j/2'><year>20x1</year></article>"

Record == {HomeA, HomeA2, Article, BadYear}

RecordLists == UNION {[1..n -> Record] : n \in 0..MaxRecords}

\* the file written from a list of records, one record per line
XmlFile(ks) == "<dblp>\n" \o Concat([i \in 1..Len(ks) |-> ks[i] \o "\n"]) \o "</dblp>\n"

\* the store file before the process starts: absent, or left by an earlier ingest
OldStore ==
    [tables       |-> TRUE,
     persons      |-> <<[id |-> 1, name |-> "Z", profile |-> "h/z", aliases |-> ""]>>,
     publications |-> <<[record |-> "book", key |-> "b/0", mdate |-> None,
                         publtype |-> None, year |-> Some(1999), authors |-> Some("::Z::"),
                         citations |-> None, publisher |-> None, school |-> None]>>,
     idx_profile  |-> TRUE,
     indexes      |-> PlainIndexes]

NoStore == [tables |-> FALSE, persons |-> <<>>, publications |-> <<>>,
            idx_profile |-> FALSE, indexes |-> {}]

QueryOps == {"query_persons_table", "query_publications_table", "query_person",
             "query_publication", "query_person_publications", "temporal_relation"}

Ended(kind, why) == [kind |-> kind, why |-> why]

InitProcess ==
    /\ DB_PATH = None /\ DB_CONN_POOL = None
    /\ db \in {NoStore, OldStore}
    /\ op = [name |-> "none"] /\ ppc = "idle" /\ outcome = Ended("none", "")
    /\ xml_data = "" /\ committed = <<>> /\ at_call = None
    /\ input = "" /\ kids = <<>> /\ offset = 0 /\ len = 0 /\ num_chunks = 0
    /\ root_tag_start = "" /\ root_tag_end = "" /\ inner = ""
    /\ driver = "ingest" /\ vpc = "idle" /\ returned = <<>>
    /\ RelIdle
    /\ TempIdle
    /\ PureIdle

\* a path a caller may hand to init_from_sqlite
OTHER_PATH == "other.sqlite"

\* OnceLock::get_or_init: the value is stored only while the cell is empty
get_or_init_overwrites(cell, value) == Some(value)
get_or_init(cell, value) == IF cell # None THEN cell ELSE Some(value)

\* get_init_conn_pool: FALSE when it panics ("database path not initialized")
pool_available == DB_CONN_POOL # None \/ DB_PATH # None

\* the pool after get_init_conn_pool returned
pool_after == get_or_init(DB_CONN_POOL, DB_PATH[1])

\* init_from_sqlite(path): the path is registered first, then a connection is taken
init_from_sqlite ==
    /\ ppc = "idle"
    /\ \E path \in {None, Some(DB_DEFAULT_PATH), Some(OTHER_PATH)} :
         /\ op' = [name |-> "init_from_sqlite", path |-> path]
         /\ DB_PATH' = get_or_init(DB_PATH, IF path = None THEN DB_DEFAULT_PATH
                                            ELSE path[1])
    /\ DB_CONN_POOL' = get_or_init(DB_CONN_POOL, DB_PATH'[1])
    /\ outcome' = IF check_database(db) THEN Ended("ok", "") ELSE Ended("err", "store")
    /\ at_call' = Some([path |-> DB_PATH, db |-> db])
    /\ UNCHANGED <<db, ppc, xml_data, committed>>
    /\ UNCHANGED <<viewerVars, relVars, tempVars, pureVars>>

\* one of the query operations; n is the number of persons temporal_relation is given,
\* whose workers are the ones to take a connection (db_items.rs:231)
query ==
    /\ ppc = "idle"
    /\ \E name \in QueryOps, n \in 0..1 :
         /\ name = "temporal_relation" \/ n = 0
         /\ op' = [name |-> name, persons |-> n]
         /\ outcome' =
              IF name = "temporal_relation" /\ n = 0 THEN Ended("ok", "")
              ELSE IF ~pool_available THEN Ended("panic", "database path not initialized")
              ELSE IF name = "temporal_relation" \/ db.tables THEN Ended("ok", "")
              ELSE Ended("err", "store")
         /\ DB_CONN_POOL' =
              IF (name = "temporal_relation" /\ n = 0) \/ ~pool_available
              THEN DB_CONN_POOL ELSE pool_after
    /\ at_call' = Some([path |-> DB_PATH, db |-> db])
    /\ UNCHANGED <<DB_PATH, db, ppc, xml_data, committed>>
    /\ UNCHANGED <<viewerVars, relVars, tempVars, pureVars>>

\* init_from_xml is called
xml_call ==
    /\ ppc = "idle"
    /\ op' = [name |-> "init_from_xml"]
    /\ at_call' = Some([path |-> DB_PATH, db |-> db])
    /\ outcome' = Ended("none", "")
    /\ ppc' = "read"
    /\ UNCHANGED <<DB_PATH, DB_CONN_POOL, db, xml_data, committed>>
    /\ UNCHANGED <<viewerVars, relVars, tempVars, pureVars>>

\* init_from_xml, lib.rs:65-102: the file is found, read and stripped of references
xml_read ==
    /\ ppc = "read"
    /\ \E file \in {None} \cup {Some(ks) : ks \in RecordLists} :
         IF file = None
         THEN /\ outcome' = Ended("err", "No XML file found")
              /\ ppc' = "idle"
              /\ UNCHANGED <<xml_data, input, kids>>
         ELSE /\ ppc' = "conn"
              /\ kids' = file[1]
              /\ input' = XmlFile(file[1])
              /\ xml_data' = strip_references(XmlFile(file[1]))
              /\ UNCHANGED outcome
    /\ UNCHANGED <<DB_PATH, DB_CONN_POOL, db, op, committed, at_call>>
    /\ UNCHANGED <<offset, len, num_chunks, root_tag_start, root_tag_end, inner,
                   driver, vpc, returned>>
    /\ UNCHANGED <<relVars, tempVars, pureVars>>

\* init_from_xml, lib.rs:104: let mut conn = get_init_conn_pool()
xml_conn ==
    /\ ppc = "conn"
    /\ IF pool_available
       THEN /\ DB_CONN_POOL' = pool_after
            /\ ppc' = "tables"
            /\ UNCHANGED outcome
       ELSE /\ outcome' = Ended("panic", "database path not initialized")
            /\ ppc' = "ended"
            /\ UNCHANGED DB_CONN_POOL
    /\ UNCHANGED <<DB_PATH, db, op, xml_data, committed, at_call>>
    /\ UNCHANGED <<viewerVars, relVars, tempVars, pureVars>>

\* init_from_xml, lib.rs:108-115: clear_tables, create_tables, DB_PATH.get_or_init,
\* then chunked_deserialize_insert builds its viewer (db.rs:202)
xml_tables ==
    /\ ppc = "tables"
    /\ db' = create_tables(clear_tables(db))
    /\ DB_PATH' = get_or_init(DB_PATH, DB_DEFAULT_PATH)
    /\ \E v \in {from_str(xml_data, CHUNK_SIZE)} :
         /\ offset' = v.offset
         /\ len' = v.len
         /\ num_chunks' = v.num_chunks
         /\ root_tag_start' = v.root_tag_start
         /\ root_tag_end' = v.root_tag_end
         /\ inner' = v.inner
    /\ committed' = <<>>
    /\ ppc' = "chunks"
    /\ UNCHANGED <<DB_CONN_POOL, op, outcome, xml_data, at_call>>
    /\ UNCHANGED <<input, kids, driver, vpc, returned>>
    /\ UNCHANGED <<relVars, tempVars, pureVars>>

\* what one pass of the for loop does with the chunk the viewer returned
\* (db.rs:211-215): decode with unwrap, flatten, dump_into_database with ?
chunk_insert(chunk, raw) ==
    IF ~raw.ok
    THEN /\ outcome' = Ended("panic", "decode")
         /\ ppc' = "ended"
         /\ UNCHANGED <<db, committed>>
    ELSE \E d \in {dump_into_database(db, from_raw_dblp(raw).publications,
                                      from_raw_dblp(raw).persons)} :
           IF d.ok
           THEN /\ db' = d.db
                /\ committed' = Append(committed, chunk)
                /\ UNCHANGED <<ppc, outcome>>
           ELSE /\ outcome' = Ended("err", "store")
                /\ ppc' = "ended"
                /\ UNCHANGED <<db, committed>>

\* chunked_deserialize_insert, db.rs:206-216: one pass of for chunk in chonker
xml_chunk ==
    /\ ppc = "chunks"
    /\ \E r \in {next_chunk(inner, offset, len, num_chunks, root_tag_start, root_tag_end)} :
         /\ offset' = r.offset
         /\ IF r.tag = "panic"
            THEN /\ outcome' = Ended("panic", "viewer")
                 /\ ppc' = "ended"
                 /\ UNCHANGED <<db, committed>>
            ELSE IF r.tag = "None"
            THEN /\ ppc' = "index"
                 /\ UNCHANGED <<db, committed, outcome>>
            ELSE chunk_insert(r.val, RawDblp(r.val))
    /\ UNCHANGED <<DB_PATH, DB_CONN_POOL, op, xml_data, at_call>>
    /\ UNCHANGED <<input, kids, len, num_chunks, root_tag_start, root_tag_end, inner,
                   driver, vpc, returned>>
    /\ UNCHANGED <<relVars, tempVars, pureVars>>

\* chunked_deserialize_insert, db.rs:219-221, and the return of init_from_xml
xml_index ==
    /\ ppc = "index"
    /\ \E r \in {create_all_indexes(db)} :
         /\ db' = r.db
         /\ outcome' = IF r.ok THEN Ended("ok", "") ELSE Ended("err", "store")
    /\ ppc' = "ended"
    /\ UNCHANGED <<DB_PATH, DB_CONN_POOL, op, xml_data, committed, at_call>>
    /\ UNCHANGED <<viewerVars, relVars, tempVars, pureVars>>

NextProcess ==
    \/ init_from_sqlite
    \/ query
    \/ xml_call
    \/ xml_read
    \/ xml_conn
    \/ xml_tables
    \/ xml_chunk
    \/ xml_index

SpecProcess == InitProcess /\ [][NextProcess]_vars

----------------------------------------------------------------------------
\* Claims about ingest and the process.

\* an init_from_xml call that went past reading its file is over: it returned, or it
\* panicked and the panic was handed to the Python caller
IngestEnded == op.name = "init_from_xml" /\ ppc = "ended"

\* the rows the chunks in cs give, chunk after chunk
RECURSIVE ChunkRows(_)
ChunkRows(cs) ==
    IF cs = <<>> THEN [publications |-> <<>>, persons |-> <<>>]
    ELSE [publications |-> from_raw_dblp(RawDblp(Head(cs))).publications
                           \o ChunkRows(Tail(cs)).publications,
          persons      |-> from_raw_dblp(RawDblp(Head(cs))).persons
                           \o ChunkRows(Tail(cs)).persons]

\* C11: when a chunk fails to decode, the ingest returns an error value instead of
\* panicking, and the store holds the rows of the chunks before it and no others
C11_DecodeFailureIsReturned ==
    (IngestEnded /\ outcome.why = "decode") =>
        /\ outcome.kind = "err"
        /\ db.publications = ChunkRows(committed).publications
        /\ db.persons = insert_persons(<<>>, ChunkRows(committed).persons)

\* C12: once an ingest is over, with success or with an error, no two rows of
\* persons share a profile
C12_ProfilesUnique ==
    IngestEnded => ~SharedProfile(db.persons)

\* C13: a query operation called before any init operation registered the store
\* path ends with an error value, not with a panic
C13_QueryBeforeInitIsAnError ==
    (op.name \in QueryOps /\ at_call[1].path = None) => outcome.kind = "err"

\* C14: in a process where no init operation has registered the path, init_from_xml
\* on a readable, valid file registers the path before it takes its first
\* connection, rebuilds the tables, inserts every chunk and returns success
C14_FreshInitFromXmlSucceeds ==
    /\ (op.name = "init_from_xml" /\ ppc = "tables") => DB_PATH # None
    /\ (IngestEnded /\ at_call[1].path = None) =>
           /\ outcome.kind = "ok"
           /\ DB_PATH # None
           /\ db.tables /\ db.idx_profile

\* the rows of s, without the id the store gave them
Unnumbered(rows) == {[r EXCEPT !.id = 0] : r \in Range(rows)}

\* init_from_xml has dropped and recreated the tables
TablesRecreated ==
    /\ op.name = "init_from_xml"
    /\ ppc \in {"chunks", "index"} \/ (ppc = "ended" /\ at_call[1].path # None)

\* C15: after a successful init_from_xml on a store that held rows of an earlier
\* ingest, the tables hold exactly the rows derived from the new input; and from
\* the moment the tables are recreated no row of the earlier ingest is left
C15_IngestRewritesStore ==
    /\ (IngestEnded /\ outcome.kind = "ok") =>
           /\ RawDblp(xml_data).ok
           /\ Len(db.persons) = Len(from_raw_dblp(RawDblp(xml_data)).persons)
           /\ Unnumbered(db.persons) = Range(from_raw_dblp(RawDblp(xml_data)).persons)
           /\ Len(db.publications) = Len(from_raw_dblp(RawDblp(xml_data)).publications)
           /\ Range(db.publications) = Range(from_raw_dblp(RawDblp(xml_data)).publications)
    /\ TablesRecreated =>
           /\ Range(db.persons) \cap Range(at_call[1].db.persons) = {}
           /\ Range(db.publications) \cap Range(at_call[1].db.publications) = {}

C15_Witness ==
    /\ IngestEnded /\ outcome.kind = "ok"
    /\ at_call[1].db = OldStore /\ db.tables /\ db.persons = <<>> /\ db.publications = <<>>

----------------------------------------------------------------------------
\* Queries of db.rs over the rows of a store.

\* the ASCII bytes split_whitespace splits at
WhiteSpace == {" ", "\t", "\n", "\r"}

\* char::to_uppercase, over ASCII
to_uppercase(c) ==
    CASE c = "a" -> "A" [] c = "b" -> "B" [] c = "c" -> "C" [] c = "d" -> "D"
      [] c = "e" -> "E" [] c = "f" -> "F" [] c = "g" -> "G" [] c = "h" -> "H"
      [] c = "i" -> "I" [] c = "j" -> "J" [] c = "k" -> "K" [] c = "l" -> "L"
      [] c = "m" -> "M" [] c = "n" -> "N" [] c = "o" -> "O" [] c = "p" -> "P"
      [] c = "q" -> "Q" [] c = "r" -> "R" [] c = "s" -> "S" [] c = "t" -> "T"
      [] c = "u" -> "U" [] c = "v" -> "V" [] c = "w" -> "W" [] c = "x" -> "X"
      [] c = "y" -> "Y" [] c = "z" -> "Z"
      [] OTHER -> c

RECURSIVE TokenEnd(_, _)
\* the offset just past the run of bytes that are not white space, from offset i on
TokenEnd(s, i) ==
    IF i < Len(s) /\ At(s, i) \notin WhiteSpace THEN TokenEnd(s, i + 1) ELSE i

RECURSIVE split_whitespace(_)
\* str::split_whitespace, collected: the non-empty runs between white space
split_whitespace(s) ==
    IF TrimStart(s, WhiteSpace) = "" THEN <<>>
    ELSE <<Take(TrimStart(s, WhiteSpace), TokenEnd(TrimStart(s, WhiteSpace), 0))>>
         \o split_whitespace(Drop(TrimStart(s, WhiteSpace),
                                  TokenEnd(TrimStart(s, WhiteSpace), 0)))

\* the closure capitalize_wildcard maps over the tokens
capitalize_none(n) == n
capitalize(n) ==
    IF n = "" THEN "" ELSE to_uppercase(At(n, 0)) \o Drop(n, 1)

\* db::capitalize_wildcard
capitalize_wildcard(in) ==
    join([i \in DOMAIN split_whitespace(in) |-> capitalize(split_whitespace(in)[i])], "%")

\* PublicationRecord::from_str succeeds on these names (db_items.rs:601-618)
RecordNames == {"article", "inproceeding", "proceeding", "incollection", "book",
                "collection", "phdthesis", "mastersthesis", "data"}

\* the first l rows: LIMIT ?, or every row without a limit
limit_rows(rows, limit) ==
    IF limit = None \/ limit[1] >= Len(rows) THEN rows ELSE SubSeq(rows, 1, limit[1])

\* the WHERE clause of query_author_publications for one row: a NULL column
\* satisfies neither comparison
author_like(q, author, max_year) ==
    /\ q.authors # None
    /\ Like(q.authors[1], "%" \o SEPARATOR \o author \o SEPARATOR \o "%")
    /\ max_year = None \/ (q.year # None /\ q.year[1] <= max_year[1])

\* db::query_author_publications: the rows a table scan selects, mapped by
\* DblpRecord::from; the record column of a stored row always parses
query_author_publications(publications, author, max_year, limit) ==
    limit_rows(SelectSeq(publications, LAMBDA q : author_like(q, author, max_year)),
               limit)

\* DblpRecord::from over a row of persons (id, name, profile, aliases): the unwrap
\* of from_str(column 1) panics unless the name is a record name; columns 4.. do not
\* exist and read as None
DblpRecord_from_person(p) ==
    [id |-> p.id, record |-> p.name, key |-> p.profile, mdate |-> Some(p.aliases),
     publtype |-> None, year |-> None, authors |-> None, citations |-> None,
     publisher |-> None, school |-> None]

\* the rows of  SELECT * FROM persons WHERE aliases LIKE key LIMIT l
persons_like(t_pers, key, limit) ==
    limit_rows(SelectSeq(t_pers, LAMBDA p : Like(p.aliases, key)), limit)

\* query_map with DblpRecord::from over the selected rows, collected
map_dblp_records(rows) ==
    IF \E i \in DOMAIN rows : rows[i].name \notin RecordNames
    THEN [tag |-> "panic"]
    ELSE [tag |-> "Ok", rows |-> [i \in DOMAIN rows |-> DblpRecord_from_person(rows[i])]]

\* db::query_publication
query_publication(t_pers, key, limit) == map_dblp_records(persons_like(t_pers, key, limit))

----------------------------------------------------------------------------
\* Calls of the pure functions on inputs drawn from bounded sets.

MaxText == 6
MaxList == 2

RECURSIVE TextsOver(_, _)
\* the texts of at most n bytes over the alphabet
TextsOver(alphabet, n) ==
    IF n = 0 THEN {""}
    ELSE TextsOver(alphabet, n - 1)
         \cup {c \o t : c \in alphabet, t \in {u \in TextsOver(alphabet, n - 1) : Len(u) = n - 1}}

ListsOver(S, n) == UNION {[1..k -> S] : k \in 0..n}

\* DblpRecord::authors (db_items.rs:154-164): None for a NULL column
DblpRecord_authors(rec) ==
    IF rec.authors = None THEN None
    ELSE Some(split(trim_matches(rec.authors[1], {":"}), SEPARATOR))

StripInputs == TextsOver({"&", "a", ";"}, MaxText)

\* lists of non-empty names, some with colons in them
NameLists == ListsOver({"A", "B C", "a:", ":a", "a::b"}, MaxList)

PublicationValues ==
    [key       : {"j/1"},
     mdate     : {None},
     publtype  : {None, Some("informal")},
     year      : {None, Some(2001)},
     authors   : {<<>>, <<"A. One">>, <<"A. One", "B. Two">>},
     school    : {<<>>, <<"S">>},
     publisher : {<<>>, <<"P">>, <<"P", "Q">>},
     citations : ListsOver({"", "...", "c/1", "1a"}, MaxList)]

WebPageValues ==
    [key    : {"h/x"},
     title  : ListsOver({"Home Page", "Trier DB", "home page"}, MaxList),
     url    : {<<>>},
     author : ListsOver({"Dr X", "X., Dr"}, MaxList)]

\* decoded corpora: for each kind the decoder holds, no record or one, and no
\* web page or one
RawValues ==
    [ok        : {TRUE},
     lists     : [Range(PublicationTags) ->
                     {<<>>, <<[key |-> "j/1", mdate |-> None, publtype |-> None,
                               year |-> Some(2001), authors |-> <<"A. One">>,
                               school |-> <<>>, publisher |-> <<>>,
                               citations |-> <<>>]>>}],
     web_pages : {<<>>, <<[key |-> "h/x", title |-> <<"Home Page">>, url |-> <<>>,
                           author |-> <<"Dr X">>]>>}]

MaxRows == 3

\* rows of a publications table: author columns as the ingest writes them, or NULL
QueryPublications ==
    {[i \in 1..Len(cols) |->
         [id |-> i, record |-> "article", key |-> "j/" \o ToString(i), mdate |-> None,
          publtype |-> None, year |-> Some(2001), authors |-> cols[i],
          citations |-> None, publisher |-> None, school |-> None]] :
       cols \in ListsOver({None, authors_column(<<"Jane">>),
                           authors_column(<<"John">>),
                           authors_column(<<"jane", "Joan">>)}, MaxRows)}

\* rows of a persons table
QueryPersons ==
    {[i \in 1..Len(ps) |-> [ps[i] EXCEPT !.id = i]] :
       ps \in ListsOver({[id |-> 0, name |-> "Jane", profile |-> "h/j", aliases |-> ""],
                         [id |-> 0, name |-> "book", profile |-> "h/b",
                          aliases |-> join_string_vec(<<"j/1">>)]}, MaxList)}

\* relations as to_relations returns them: one set per year of the range, each
\* holding the sets before it
RelationValues ==
    {[author |-> "A", years |-> <<2000, 2000 + Len(cy) - 1>>, coauthor_years |-> cy] :
       cy \in {l \in ListsOver(SUBSET {"B", "C"}, MaxList) :
                  \A k \in 1..(Len(l) - 1) : l[k] \subseteq l[k + 1]}}

\* names as a caller may type them: letters, blanks, a wildcard
NameInputs == TextsOver({"a", "B", " ", "%"}, MaxText) \cup {"john doe", "a\tb \n c"}

\* texts of any shape over the bytes the three regexes look at, followed by blanks
\* enough for the loop's peek
Blanks == "          "
AnyTexts == {t \o Blanks : t \in TextsOver({"<", "/", ">", "a"}, MaxText)}

InitPure ==
    /\ \/ fn_name = "strip_references" /\ fn_arg \in StripInputs
       \/ fn_name = "from_raw_dblp" /\ fn_arg \in RawValues
       \/ fn_name = "to_csv" /\ fn_arg \in RelationValues
       \/ fn_name = "next_element" /\ fn_arg \in AnyTexts
       \/ fn_name = "capitalize_wildcard" /\ fn_arg \in NameInputs
       \/ fn_name = "query_author_publications"
          /\ fn_arg \in [publications : QueryPublications,
                         author : {"Jane", "John", "jane", "J_ne", "%"},
                         max_year : {None}, limit : {None, Some(1)}]
       \/ fn_name = "query_publication"
          /\ fn_arg \in [persons : QueryPersons,
                         publications : {t \in QueryPublications : Len(t) <= MaxList},
                         key : {"j/1", "j/2", "", "::j/1::"},
                         limit : {None, Some(1)}]
       \/ fn_name = "authors" /\ fn_arg \in NameLists
       \/ fn_name = "try_into_dblp_record"
          /\ fn_arg \in [tag : {"article", "inproceedings"}, value : PublicationValues]
       \/ fn_name = "try_from_web_page" /\ fn_arg \in WebPageValues
    /\ fn_out = None
    /\ ViewerIdle
    /\ RelIdle
    /\ TempIdle
    /\ ProcIdle

strip_references_call ==
    /\ fn_name = "strip_references" /\ fn_out = None
    /\ fn_out' = Some(strip_references(fn_arg))
    /\ UNCHANGED <<fn_name, fn_arg, viewerVars, relVars, tempVars, procVars>>

\* authors() on the record whose authors column is join_string_vec of the list
authors_call ==
    /\ fn_name = "authors" /\ fn_out = None
    /\ fn_out' = Some(DblpRecord_authors([authors |-> Some(join_string_vec(fn_arg))]))
    /\ UNCHANGED <<fn_name, fn_arg, viewerVars, relVars, tempVars, procVars>>

try_into_dblp_record_call ==
    /\ fn_name = "try_into_dblp_record" /\ fn_out = None
    /\ fn_out' = Some(try_into_dblp_record(fn_arg.tag, fn_arg.value))
    /\ UNCHANGED <<fn_name, fn_arg, viewerVars, relVars, tempVars, procVars>>

try_from_web_page_call ==
    /\ fn_name = "try_from_web_page" /\ fn_out = None
    /\ fn_out' = Some(try_from_web_page(fn_arg))
    /\ UNCHANGED <<fn_name, fn_arg, viewerVars, relVars, tempVars, procVars>>

from_raw_dblp_call ==
    /\ fn_name = "from_raw_dblp" /\ fn_out = None
    /\ fn_out' = Some(from_raw_dblp(fn_arg))
    /\ UNCHANGED <<fn_name, fn_arg, viewerVars, relVars, tempVars, procVars>>

query_author_publications_call ==
    /\ fn_name = "query_author_publications" /\ fn_out = None
    /\ fn_out' = Some(query_author_publications(fn_arg.publications, fn_arg.author,
                                                fn_arg.max_year, fn_arg.limit))
    /\ UNCHANGED <<fn_name, fn_arg, viewerVars, relVars, tempVars, procVars>>

query_publication_call ==
    /\ fn_name = "query_publication" /\ fn_out = None
    /\ fn_out' = Some(query_publication(fn_arg.persons, fn_arg.key, fn_arg.limit))
    /\ UNCHANGED <<fn_name, fn_arg, viewerVars, relVars, tempVars, procVars>>

\* the header and one data row of a relation, as save_temporal_relation writes them
to_csv_call ==
    /\ fn_name = "to_csv" /\ fn_out = None
    /\ \E row \in to_csv_row(fn_arg) :
          fn_out' = Some([headers |-> to_csv_headers(fn_arg), row |-> row])
    /\ UNCHANGED <<fn_name, fn_arg, viewerVars, relVars, tempVars, procVars>>

capitalize_wildcard_call ==
    /\ fn_name = "capitalize_wildcard" /\ fn_out = None
    /\ fn_out' = Some(capitalize_wildcard(fn_arg))
    /\ UNCHANGED <<fn_name, fn_arg, viewerVars, relVars, tempVars, procVars>>

\* next_element on a viewer over the text, at offset 0
next_element_call ==
    /\ fn_name = "next_element" /\ fn_out = None
    /\ fn_out' = Some(next_element(fn_arg, 0))
    /\ UNCHANGED <<fn_name, fn_arg, viewerVars, relVars, tempVars, procVars>>

NextPure ==
    \/ strip_references_call
    \/ next_element_call
    \/ capitalize_wildcard_call
    \/ to_csv_call
    \/ from_raw_dblp_call
    \/ query_author_publications_call
    \/ query_publication_call
    \/ authors_call
    \/ try_into_dblp_record_call
    \/ try_from_web_page_call

SpecPure == InitPure /\ [][NextPure]_vars

----------------------------------------------------------------------------
\* Claims about the pure functions.

\* a match of &[A-Za-z]+; somewhere in t
HasReference(t) == \E i \in 0..(Len(t) - 1) : XML_REF_REGEX(Drop(t, i)) > 0

\* C16: strip_references is idempotent: a second pass over the output of one pass
\* changes nothing, the output holds no match of &[A-Za-z]+;
C16_StripIdempotent ==
    (fn_name = "strip_references" /\ fn_out # None) =>
        /\ strip_references(fn_out[1]) = fn_out[1]
        /\ ~HasReference(fn_out[1])

\* C17: for a list L of non-empty strings, authors() on the record whose authors
\* column is join_string_vec(L) gives L back, same elements in the same order
C17_BagRoundTrip ==
    (fn_name = "authors" /\ fn_out # None) => fn_out[1] = Some(fn_arg)

RECURSIVE Bag(_)
\* the bag encoding of a non-empty list: "::" before the first element and after each
Bag(L) == IF L = <<>> THEN "::" ELSE "::" \o Head(L) \o Bag(Tail(L))

\* a citation with at least one alphabetic character
HasLetter(c) == \E i \in 0..(Len(c) - 1) : At(c, i) \in Alphabetic

\* C18: each flattened column of a publication is NULL for an empty list and the
\* bag encoding of the list in source order otherwise (citations: of the filtered
\* list); a person's aliases is "" for no aliases and the bag encoding otherwise
C18_FlattenedColumns ==
    /\ (fn_name = "try_into_dblp_record" /\ fn_out # None) =>
           \A col \in {"authors", "citations", "publisher", "school"} :
               LET L == IF col = "citations"
                        THEN SelectSeq(fn_arg.value.citations, HasLetter)
                        ELSE fn_arg.value[col]
               IN  fn_out[1][col] = IF L = <<>> THEN None ELSE Some(Bag(L))
    /\ (fn_name = "try_from_web_page" /\ fn_out # None /\ fn_out[1] # None) =>
           fn_out[1][1].aliases = IF Len(fn_arg.author) <= 1 THEN ""
                                  ELSE Bag(Tail(fn_arg.author))

C18_Witness ==
    /\ fn_name = "try_into_dblp_record" /\ fn_out # None
    /\ fn_arg.value.authors = <<"A. One", "B. Two">>
    /\ fn_out[1].authors = Some("::A. One::B. Two::")
    /\ fn_arg.value.school = <<>> /\ fn_out[1].school = None

\* the elements of a bag-encoded column, None for NULL
Elements(col) ==
    IF col = None THEN <<>>
    ELSE split(Slice(col[1], Len(SEPARATOR), Len(col[1]) - Len(SEPARATOR)), SEPARATOR)

\* C19: a citation is dropped exactly when it is empty or has no alphabetic
\* character; the others keep their order; the column is NULL when none is left
C19_CitationFilter ==
    (fn_name = "try_into_dblp_record" /\ fn_out # None) =>
        /\ Elements(fn_out[1].citations) = SelectSeq(fn_arg.value.citations, HasLetter)
        /\ fn_out[1].citations = None
             <=> \A i \in 1..Len(fn_arg.value.citations) :
                    ~HasLetter(fn_arg.value.citations[i])

C19_Witness ==
    /\ fn_name = "try_into_dblp_record" /\ fn_out # None
    /\ fn_arg.value.citations = <<"...", "1a">>
    /\ fn_out[1].citations = Some("::1a::")

\* C20: a www record gives a Person row exactly when its first title is
\* "Home Page"; the row has the first author as name ("" when there is none), the
\* key as profile and the bag encoding of the other authors as aliases
C20_PersonFilter ==
    (fn_name = "try_from_web_page" /\ fn_out # None) =>
        /\ fn_out[1] # None <=> (fn_arg.title # <<>> /\ Head(fn_arg.title) = "Home Page")
        /\ fn_out[1] # None =>
             /\ fn_out[1][1].name = IF fn_arg.author = <<>> THEN "" ELSE Head(fn_arg.author)
             /\ fn_out[1][1].profile = fn_arg.key
             /\ fn_out[1][1].aliases = IF Len(fn_arg.author) <= 1 THEN ""
                                       ELSE Bag(Tail(fn_arg.author))

C20_Witness ==
    /\ fn_name = "try_from_web_page"
    /\ fn_arg.title = <<"Home Page">> /\ fn_arg.author = <<"Dr X", "X., Dr">>
    /\ fn_out = Some(Some([id |-> 0, name |-> "Dr X", profile |-> "h/x",
                           aliases |-> "::X., Dr::"]))

RECURSIVE CountRecords(_, _)
\* the number of publication records a decoded corpus holds, over the kinds from the
\* k-th on
CountRecords(raw, k) ==
    IF k > Len(PublicationTags) THEN 0
    ELSE Len(raw.lists[PublicationTags[k]]) + CountRecords(raw, k + 1)

\* C21: flattening a decoded corpus emits one publication row for every publication
\* record it holds, of every kind the decoder holds, data included: as many rows as
\* records.  (Fails: the data list is never flattened.)
C21_OneRowPerRecord ==
    (fn_name = "from_raw_dblp" /\ fn_out # None)
        => Len(fn_out[1].publications) = CountRecords(fn_arg, 1)

\* the rows whose decoded author list holds the name itself
WrittenBy(publications, n) ==
    SelectSeq(publications,
              LAMBDA q : /\ DblpRecord_authors(q) # None
                         /\ n \in Range(DblpRecord_authors(q)[1]))

\* C22: query_author_publications(n) without max_year and limit returns exactly the
\* publications whose author list holds an element equal to n, byte for byte: case
\* matters and % and _ in n stand for themselves.  (Fails: LIKE folds ASCII case and
\* reads % and _ in n as wildcards.)
C22_ExactAuthorMatch ==
    (/\ fn_name = "query_author_publications" /\ fn_out # None
     /\ fn_arg.max_year = None /\ fn_arg.limit = None)
        => fn_out[1] = WrittenBy(fn_arg.publications, fn_arg.author)

\* C23: query_publication(key, limit) returns normally the rows of publications whose
\* key is the given key, at most limit of them.  (Fails: the statement reads persons
\* and the row conversion panics on a person's name.)
C23_PublicationByKey ==
    (fn_name = "query_publication" /\ fn_out # None)
        => /\ fn_out[1].tag = "Ok"
           /\ fn_out[1].rows =
                  limit_rows(SelectSeq(fn_arg.publications,
                                       LAMBDA q : q.key = fn_arg.key), fn_arg.limit)

\* the bag encoding of the names of S in some order: "" for no name, and otherwise
\* the separator first, last and between the names, every name once
IsBagOf(cell, S) ==
    IF S = {} THEN cell = ""
    ELSE \E o \in Orders(S) : cell = SEPARATOR \o join(o, SEPARATOR) \o SEPARATOR

\* C24: the header row is "author" and the years start..end, and the data row is
\* the author and, for the k-th year, the bag encoding of the coauthors accumulated
\* through that year.  (Fails: the cells have the separator between the names only.)
C24_CsvCellsAreBags ==
    (fn_name = "to_csv" /\ fn_out # None)
        => /\ fn_out[1].headers =
                  <<"author">> \o [k \in 1..Len(fn_arg.coauthor_years) |->
                                     ToString(fn_arg.years[1] + k - 1)]
           /\ Len(fn_out[1].row) = Len(fn_arg.coauthor_years) + 1
           /\ fn_out[1].row[1] = fn_arg.author
           /\ \A k \in 1..Len(fn_arg.coauthor_years) :
                  IsBagOf(fn_out[1].row[k + 1], fn_arg.coauthor_years[k])

\* C25: save_temporal_relation returns an error and leaves no file when two of the
\* relations differ in their range of years; writes the header row and one data row
\* per relation, in the order of the list, when all ranges are the same; and returns
\* success without a file for the empty list.  (Fails: a list of placeholders has one
\* range, and the writer refuses their rows.)
C25_SaveWritesAllOrNothing ==
    saved # "none"
        => IF results = <<>> THEN saved = "Ok" /\ target = None
           ELSE IF \E i \in DOMAIN results : results[i].years # results[1].years
                THEN saved = "Err" /\ target = None
           ELSE /\ saved = "Ok"
                /\ target # None
                /\ Len(target[1]) = Len(results) + 1
                /\ target[1][1] = to_csv_headers(results[1])
                /\ \A i \in DOMAIN results : target[1][i + 1] \in to_csv_row(results[i])

\* C30: every relation temporal_relation returns, a result or a placeholder, has one
\* set per year of its range, so that its data row has as many fields as its header
\* row.  (Fails: a placeholder has the range (0,0) and no set.)
C30_RowMatchesHeader ==
    tpc = "returned"
        => \A i \in DOMAIN results :
              /\ Len(results[i].coauthor_years) = results[i].years[2] - results[i].years[1] + 1
              /\ \A row \in to_csv_row(results[i]) :
                     Len(row) = Len(to_csv_headers(results[i]))

RECURSIVE Wildcarded(_, _, _, _)
\* the text read from offset i on, byte by byte: white space is dropped, the first
\* byte of a run of other bytes is upper-cased, and a % precedes every run but the
\* first one
Wildcarded(t, i, started, in_token) ==
    IF i >= Len(t) THEN ""
    ELSE IF At(t, i) \in WhiteSpace THEN Wildcarded(t, i + 1, started, FALSE)
    ELSE IF in_token THEN At(t, i) \o Wildcarded(t, i + 1, TRUE, TRUE)
    ELSE (IF started THEN "%" ELSE "") \o to_uppercase(At(t, i))
         \o Wildcarded(t, i + 1, TRUE, TRUE)

\* C29: capitalize_wildcard returns the tokens between white space, each with its
\* first character upper-cased and the rest as it was, joined by % with no % before
\* the first or after the last token; "john doe" gives "John%Doe"; and applied to its
\* own output it returns that output.
C29_CapitalizeWildcard ==
    (fn_name = "capitalize_wildcard" /\ fn_out # None)
        => /\ fn_out[1] = Wildcarded(fn_arg, 0, FALSE, FALSE)
           /\ (Find(fn_arg, "%") < 0 /\ Len(fn_out[1]) > 0)
                 => At(fn_out[1], 0) # "%" /\ At(fn_out[1], Len(fn_out[1]) - 1) # "%"
           /\ fn_arg = "john doe" => fn_out[1] = "John%Doe"
           /\ capitalize_wildcard(fn_out[1]) = fn_out[1]

\* a name of two tokens in lower case between and around blanks, capitalised and joined
C29_Witness ==
    /\ fn_name = "capitalize_wildcard" /\ fn_out # None
    /\ fn_arg = " a aB "
    /\ fn_out[1] = "A%AB"

\* C28: in next_element, whatever the text, the nearest opening match and the
\* nearest closing match never start at the same byte: no call ends in the
\* unimplemented arm, and from every offset of the text the two searches, when both
\* find a match, find them at different offsets, so that a pass that is not a
\* self-closing one takes the arm that adds 1 to depth or the arm that subtracts 1.
C28_NoTie ==
    (fn_name = "next_element" /\ fn_out # None)
        => /\ ~(fn_out[1].tag = "panic" /\ fn_out[1].val = "unimplemented")
           /\ \A i \in 0..Len(fn_arg) :
                 (XML_START_TAG(Drop(fn_arg, i)) # None /\ XML_END_TAG(Drop(fn_arg, i)) # None)
                    => XML_START_TAG(Drop(fn_arg, i))[1].start
                          # XML_END_TAG(Drop(fn_arg, i))[1].start

\* a call whose loop found a closing match at offset 0 and an opening match at
\* offset 2 of the text after the first opening tag, and returned the element
C28_Witness ==
    /\ fn_name = "next_element" /\ fn_out # None
    /\ fn_arg = "<a/><a" \o Blanks
    /\ XML_START_TAG(Drop(fn_arg, 2)) = Some([start |-> 2, end |-> 4])
    /\ XML_END_TAG(Drop(fn_arg, 2)) = Some([start |-> 0, end |-> 2])
    /\ fn_out[1] = [tag |-> "Some", val |-> "<a/>", offset |-> 4]

\* the store has none, or all, of the five indexes
NoIndex(d) == ~d.idx_profile /\ d.indexes = {}
AllIndexes(d) == d.idx_profile /\ d.indexes = PlainIndexes

\* C26: during an ingest no index exists while the chunks are inserted and until the
\* last chunk has committed; the store changes only by the one transaction of a
\* chunk, which adds that chunk to the committed ones, and a chunk that does not
\* commit leaves the store as it was; and the five indexes exist when the ingest
\* returns success.
C26_IndexesAfterChunks ==
    /\ [](/\ (op.name = "init_from_xml" /\ ppc \in {"chunks", "index"}) => NoIndex(db)
          /\ (IngestEnded /\ outcome.kind = "ok") => AllIndexes(db))
    /\ [][ppc = "chunks"
            => /\ NoIndex(db')
               /\ db' # db => /\ Len(committed') = Len(committed) + 1
                              /\ Front(committed') = committed
               /\ committed' = committed => db' = db]_vars

\* a chunk has been committed to a store that had all its indexes before the call,
\* and the store has none now
C26_Witness ==
    /\ op.name = "init_from_xml" /\ ppc = "chunks"
    /\ Len(committed) >= 1 /\ db.persons # <<>>
    /\ AllIndexes(at_call[1].db)
    /\ NoIndex(db)

\* C27: the path and the pool are set at most once: once a path is registered, no
\* later init_from_sqlite (whatever path it is given, and also when it returns
\* success), init_from_xml or query changes the path or the pool, and the pool is
\* the one opened on the registered path.
C27_PathAndPoolSetOnce ==
    /\ [](DB_CONN_POOL # None => DB_CONN_POOL = DB_PATH)
    /\ [][/\ DB_PATH # None => DB_PATH' = DB_PATH
          /\ DB_CONN_POOL # None => DB_CONN_POOL' = DB_CONN_POOL]_vars

\* init_from_sqlite returned success for a path other than the registered one
C27_Witness ==
    /\ op.name = "init_from_sqlite" /\ op.path = Some(OTHER_PATH)
    /\ outcome.kind = "ok"
    /\ at_call[1].path = Some(DB_DEFAULT_PATH)
    /\ DB_PATH = Some(DB_DEFAULT_PATH) /\ DB_CONN_POOL = Some(DB_DEFAULT_PATH)

====
